---- MODULE Spec2Model ----
(***************************************************************************)
(* draftdeploy: per-pull-request preview environments.                     *)
(*                                                                         *)
(* The module models one process run of cmd/draftdeploy (run, deploy,      *)
(* teardown), the Deployer of internal/azure with its retry policy, the    *)
(* descriptor source of internal/compose and the provider's resource       *)
(* groups.  Strings are sequences of one-character strings; error texts    *)
(* are sequences of tokens; time is counted in minutes.                      *)
(***************************************************************************)
EXTENDS Integers, Sequences, FiniteSets, TLC

(* ---------------------------------------------------------------------- *)
(* Bounds of the model                                                     *)
(* ---------------------------------------------------------------------- *)

\* Times one backoff.Retry goes round again before the provider lets it end.
MaxAttempts == 2

\* Services declared by one descriptor.
MaxServices == 2

\* Characters of the owners and repository names the naming is tried on.
MaxWordLen == 2

\* The largest pull-request number a name is compared against.
MaxPRNumber == 130

\* The most calls of the Status Reporter on one pull request.
MaxPosts == 3

(* ---------------------------------------------------------------------- *)
(* Program constants (minutes)                                             *)
(* ---------------------------------------------------------------------- *)

deployTimeout == 15

teardownTimeout == 5

cleanupTimeout == 2

maxRetryTime == 10

MaxResourceGroupLen == 90

MinDNSLabelLen == 3

MaxDNSLabelLen == 63

DefaultIngressPort == 80

(* ---------------------------------------------------------------------- *)
(* Strings                                                                 *)
(* ---------------------------------------------------------------------- *)

Lower == <<"a","b","c","d","e","f","g","h","i","j","k","l","m",
           "n","o","p","q","r","s","t","u","v","w","x","y","z">>

Upper == <<"A","B","C","D","E","F","G","H","I","J","K","L","M",
           "N","O","P","Q","R","S","T","U","V","W","X","Y","Z">>

Digits == <<"0","1","2","3","4","5","6","7","8","9">>

\* The characters of the model in ASCII order; Code gives a character's rank.
Ascii == <<"-", ".", "/">> \o Digits \o Upper \o <<"_">> \o Lower

Range(s) == {s[i] : i \in 1..Len(s)}

Code(c) == CHOOSE i \in 1..Len(Ascii) : Ascii[i] = c

\* s < t in Go's string order (bytewise lexicographic).
RECURSIVE StrLess(_, _)
StrLess(s, t) ==
    IF t = <<>> THEN FALSE
    ELSE IF s = <<>> THEN TRUE
    ELSE IF Code(Head(s)) # Code(Head(t)) THEN Code(Head(s)) < Code(Head(t))
    ELSE StrLess(Tail(s), Tail(t))

\* strings.ToLower on one character.
ToLowerChar(c) ==
    IF c \in Range(Upper) THEN Lower[CHOOSE i \in 1..Len(Upper) : Upper[i] = c] ELSE c

ToLower(s) == [i \in 1..Len(s) |-> ToLowerChar(s[i])]

\* regexp.ReplaceAllString(s, "-") for a one-character negated class.
ReplaceOutside(s, allowed) == [i \in 1..Len(s) |-> IF s[i] \in allowed THEN s[i] ELSE "-"]

\* strings.Trim(s, "-")
RECURSIVE TrimLeft(_)
TrimLeft(s) == IF s # <<>> /\ Head(s) = "-" THEN TrimLeft(Tail(s)) ELSE s

RECURSIVE TrimRight(_)
TrimRight(s) ==
    IF s # <<>> /\ s[Len(s)] = "-" THEN TrimRight(SubSeq(s, 1, Len(s) - 1)) ELSE s

Trim(s) == TrimRight(TrimLeft(s))

\* fmt's %d for a non-negative int.
RECURSIVE Itoa(_)
Itoa(n) == IF n < 10 THEN <<Digits[n + 1]>> ELSE Itoa(n \div 10) \o <<Digits[(n % 10) + 1]>>

(* ---------------------------------------------------------------------- *)
(* Environment naming (cmd/draftdeploy/main.go)                            *)
(* ---------------------------------------------------------------------- *)

RGAllowed == Range(Lower) \cup Range(Upper) \cup Range(Digits) \cup {"_", ".", "-"}

DNSAllowed == Range(Lower) \cup Range(Digits) \cup {"-"}

Prefix == <<"d","r","a","f","t","d","e","p","l","o","y","-">>

\* sanitizeResourceGroupName cutting a long name to the limit.
sanitizeResourceGroupNameTruncating(owner, repo, prNumber) ==
    LET cleanOwner == ReplaceOutside(owner, RGAllowed)
        cleanRepo == ReplaceOutside(repo, RGAllowed)
        name == Prefix \o cleanOwner \o <<"-">> \o cleanRepo \o <<"-","p","r">> \o Itoa(prNumber)
    IN  IF Len(name) > MaxResourceGroupLen
        THEN [name |-> SubSeq(name, 1, MaxResourceGroupLen), err |-> "nil"]
        ELSE [name |-> name, err |-> "nil"]

\* The result pairs the name with the error, as the Go function does.
sanitizeResourceGroupName(owner, repo, prNumber) ==
    LET cleanOwner == ReplaceOutside(owner, RGAllowed)
        cleanRepo == ReplaceOutside(repo, RGAllowed)
        name == Prefix \o cleanOwner \o <<"-">> \o cleanRepo \o <<"-","p","r">> \o Itoa(prNumber)
    IN  IF Len(name) > MaxResourceGroupLen
        THEN [name |-> <<>>, err |-> "resource group name too long"]
        ELSE [name |-> name, err |-> "nil"]

\* sanitizeDNSLabel without the fallback to "dd-pr<N>" for a long label.
sanitizeDNSLabelWithoutFallback(owner, repo, prNumber) ==
    LET cleanOwner == ReplaceOutside(ToLower(owner), DNSAllowed)
        cleanRepo == ReplaceOutside(ToLower(repo), DNSAllowed)
        label == Trim(<<"d","d","-">> \o cleanOwner \o <<"-">> \o cleanRepo
                      \o <<"-","p","r">> \o Itoa(prNumber))
    IN  IF Len(label) < MinDNSLabelLen
        THEN [name |-> <<>>, err |-> "DNS label too short"]
        ELSE [name |-> label, err |-> "nil"]

\* sanitizeDNSLabel falling back to a label without the number.
sanitizeDNSLabelBareFallback(owner, repo, prNumber) ==
    LET cleanOwner == ReplaceOutside(ToLower(owner), DNSAllowed)
        cleanRepo == ReplaceOutside(ToLower(repo), DNSAllowed)
        label == Trim(<<"d","d","-">> \o cleanOwner \o <<"-">> \o cleanRepo
                      \o <<"-","p","r">> \o Itoa(prNumber))
    IN  IF Len(label) < MinDNSLabelLen
        THEN [name |-> <<>>, err |-> "DNS label too short"]
        ELSE IF Len(label) > MaxDNSLabelLen
        THEN [name |-> <<"d","d","-","p","r">>, err |-> "nil"]
        ELSE [name |-> label, err |-> "nil"]

sanitizeDNSLabel(owner, repo, prNumber) ==
    LET cleanOwner == ReplaceOutside(ToLower(owner), DNSAllowed)
        cleanRepo == ReplaceOutside(ToLower(repo), DNSAllowed)
        label == Trim(<<"d","d","-">> \o cleanOwner \o <<"-">> \o cleanRepo
                      \o <<"-","p","r">> \o Itoa(prNumber))
    IN  IF Len(label) < MinDNSLabelLen
        THEN [name |-> <<>>, err |-> "DNS label too short"]
        ELSE IF Len(label) > MaxDNSLabelLen
        THEN [name |-> <<"d","d","-","p","r">> \o Itoa(prNumber), err |-> "nil"]
        ELSE [name |-> label, err |-> "nil"]

containerNameOf(prNumber) == <<"d","d","-","p","r">> \o Itoa(prNumber)

(* ---------------------------------------------------------------------- *)
(* Descriptor source (internal/compose/parser.go)                          *)
(* ---------------------------------------------------------------------- *)

\* CPU cores and memory GB are counted in thousandths.
defaultCPU == 500

defaultMemoryGB == 500

DefaultCPU == 500

DefaultMemoryGB == 500

MaxPort == 65535

\* The services a descriptor may declare: a build-only service with a port,
\* a service with a published and an unpublished port, a service without ports.
ApiService ==
    [name |-> <<"a","p","i">>, image |-> "",
     ports |-> <<[published |-> "3000", target |-> 3000]>>]

WebService ==
    [name |-> <<"w","e","b">>, image |-> "nginx:alpine",
     ports |-> <<[published |-> "", target |-> 9000],
                 [published |-> "8080", target |-> 8080]>>]

DbService ==
    [name |-> <<"d","b">>, image |-> "postgres:15", ports |-> <<>>]

ServicePool == {ApiService, WebService, DbService}

\* Descriptors list their services in declaration order, names unique.
Descriptors ==
    {d \in UNION {[1..n -> ServicePool] : n \in 1..MaxServices} :
        \A i, j \in 1..Len(d) : i # j => d[i].name # d[j].name}

\* types.Project.Services: a Go map keyed by service name.
Services(d) == {d[i] : i \in 1..Len(d)}

ServiceNamed(d, name) == CHOOSE s \in Services(d) : s.name = name

\* sort.Strings over a set of names.
RECURSIVE SortStrings(_)
SortStrings(names) ==
    IF names = {} THEN <<>>
    ELSE LET m == CHOOSE x \in names : \A y \in names \ {x} : StrLess(x, y)
         IN  <<m>> \o SortStrings(names \ {m})

\* GetServiceNames without sort.Strings: the names as the descriptor lists them.
GetServiceNamesAsDeclared(d) == [i \in 1..Len(d) |-> d[i].name]

GetServiceNames(d) == SortStrings({s.name : s \in Services(d)})

GetServiceImage(d, serviceName) ==
    IF \E s \in Services(d) : s.name = serviceName
    THEN ServiceNamed(d, serviceName).image
    ELSE ""

\* ExposedOf without the check of the target's range.
RECURSIVE ExposedOfAnyTarget(_)
ExposedOfAnyTarget(ports) ==
    IF ports = <<>> THEN <<>>
    ELSE LET port == Head(ports)
         IN  IF port.published = "" THEN ExposedOfAnyTarget(Tail(ports))
             ELSE <<port.target>> \o ExposedOfAnyTarget(Tail(ports))

RECURSIVE ExposedOf(_)
ExposedOf(ports) ==
    IF ports = <<>> THEN <<>>
    ELSE LET port == Head(ports)
         IN  IF port.published = "" THEN ExposedOf(Tail(ports))
             ELSE IF port.target < 1 \/ port.target > MaxPort THEN ExposedOf(Tail(ports))
             ELSE <<port.target>> \o ExposedOf(Tail(ports))

GetExposedPorts(d, serviceName) ==
    IF \E s \in Services(d) : s.name = serviceName
    THEN ExposedOf(ServiceNamed(d, serviceName).ports)
    ELSE <<>>

\* parseFrom without the skip of services that have no image.
RECURSIVE parseFromAll(_, _)
parseFromAll(d, names) ==
    IF names = <<>> THEN <<>>
    ELSE LET name == Head(names)
         IN  <<[Name |-> name, Image |-> GetServiceImage(d, name),
                Ports |-> GetExposedPorts(d, name),
                Environment |-> {}, CPU |-> defaultCPU, MemoryGB |-> defaultMemoryGB]>>
             \o parseFromAll(d, Tail(names))

\* The loop of parseComposeServices over the names still to visit.
RECURSIVE parseFrom(_, _)
parseFrom(d, names) ==
    IF names = <<>> THEN <<>>
    ELSE LET name == Head(names)
             image == GetServiceImage(d, name)
         IN  IF image = "" THEN parseFrom(d, Tail(names))
             ELSE <<[Name |-> name, Image |-> image, Ports |-> GetExposedPorts(d, name),
                     Environment |-> {}, CPU |-> defaultCPU, MemoryGB |-> defaultMemoryGB]>>
                  \o parseFrom(d, Tail(names))

\* The []azure.ContainerConfig result of parseComposeServices.
parseComposeServices(d) == parseFrom(d, GetServiceNames(d))

(* ---------------------------------------------------------------------- *)
(* Deployment translator (internal/azure/deployer.go)                      *)
(* ---------------------------------------------------------------------- *)

\* buildEnvVars without sort.Strings: the keys in some other order.
buildEnvVarsUnsorted(env) ==
    IF env = {} THEN <<>>
    ELSE LET keys == SortStrings({kv[1] : kv \in env})
             n == Len(keys)
         IN  [i \in 1..n |->
                 [Name |-> keys[n + 1 - i],
                  Value |-> (CHOOSE kv \in env : kv[1] = keys[n + 1 - i])[2]]]

\* The map Environment is a set of <<key, value>> pairs with unique keys.
buildEnvVars(env) ==
    IF env = {} THEN <<>>
    ELSE LET keys == SortStrings({kv[1] : kv \in env})
         IN  [i \in 1..Len(keys) |->
                 [Name |-> keys[i], Value |-> (CHOOSE kv \in env : kv[1] = keys[i])[2]]]

\* fmt.Sprintf("%.1fGi", mem): tenths of a GB, rounded from thousandths to the
\* nearest tenth. A quarter or three quarters of a tenth-pair (x.25, x.75) is
\* an exact binary fraction and goes to the even tenth; the other values with
\* a 5 in the hundredths are not exact in binary and are not drawn as inputs.
FormatGi(mem) ==
    IF mem % 100 = 50 /\ (mem \div 100) % 2 = 0
    THEN mem \div 100
    ELSE (mem + 50) \div 100

\* ingressPortOf looking at the first container only.
ingressPortOfFirstContainer(containers) ==
    IF containers = <<>> THEN DefaultIngressPort
    ELSE IF Len(Head(containers).Ports) > 0 THEN Head(containers).Ports[1]
    ELSE DefaultIngressPort

RECURSIVE ingressPortOf(_)
ingressPortOf(containers) ==
    IF containers = <<>> THEN DefaultIngressPort
    ELSE IF Len(Head(containers).Ports) > 0 THEN Head(containers).Ports[1]
    ELSE ingressPortOf(Tail(containers))

\* buildContainer with a zero CPU or memory handed on as it is.
buildContainerWithoutDefaults(c) ==
    [Name |-> c.Name, Image |-> c.Image, Env |-> buildEnvVars(c.Environment),
     CPU |-> c.CPU, MemoryGi |-> FormatGi(c.MemoryGB)]

\* buildContainer with the declared ports of the container carried along.
buildContainerWithPorts(c) ==
    [Name |-> c.Name, Image |-> c.Image, Env |-> buildEnvVars(c.Environment),
     CPU |-> IF c.CPU = 0 THEN DefaultCPU ELSE c.CPU,
     MemoryGi |-> FormatGi(IF c.MemoryGB = 0 THEN DefaultMemoryGB ELSE c.MemoryGB),
     Ports |-> c.Ports]

buildContainer(c) ==
    [Name |-> c.Name, Image |-> c.Image, Env |-> buildEnvVars(c.Environment),
     CPU |-> IF c.CPU = 0 THEN DefaultCPU ELSE c.CPU,
     MemoryGi |-> FormatGi(IF c.MemoryGB = 0 THEN DefaultMemoryGB ELSE c.MemoryGB)]

\* buildContainerApp with the environment's identifier left out.
buildContainerAppWithoutEnvironment(config, envID) ==
    [Location |-> config.Location,
     ManagedEnvironmentID |-> "",
     Ingress |-> [External |-> TRUE, TargetPort |-> ingressPortOf(config.Containers),
                  Transport |-> "auto"],
     Containers |-> [i \in 1..Len(config.Containers) |-> buildContainer(config.Containers[i])],
     Scale |-> [MinReplicas |-> 0, MaxReplicas |-> 1]]

buildContainerApp(config, envID) ==
    [Location |-> config.Location,
     ManagedEnvironmentID |-> envID,
     Ingress |-> [External |-> TRUE, TargetPort |-> ingressPortOf(config.Containers),
                  Transport |-> "auto"],
     Containers |-> [i \in 1..Len(config.Containers) |-> buildContainer(config.Containers[i])],
     Scale |-> [MinReplicas |-> 0, MaxReplicas |-> 1]]

(* ---------------------------------------------------------------------- *)
(* Errors and the retry policy (internal/azure/deployer.go)                *)
(* ---------------------------------------------------------------------- *)

\* An error is its text, a sequence of tokens; <<>> is nil.
Nil == <<>>

Wrap(msg, err) == <<msg>> \o err

\* ctx.Err() once the deadline of a context has passed.
ctxErr == <<"context deadline exceeded">>

permanentErrors ==
    {"InvalidParameter", "InvalidResourceGroup", "AuthorizationFailed", "InvalidSubscriptionId"}

\* strings.Contains(err.Error(), pe) for some pe, on the tokens of the text.
isPermanentError(err) == \E i \in 1..Len(err) : err[i] \in permanentErrors

\* What the provider may answer to a request that fails.
Faults == {<<"TooManyRequests">>, <<"AuthorizationFailed">>}

\* The provider's answer to a delete of a group that does not exist.
NotFound == <<"ResourceGroupNotFound">>

\* Minutes a remote call, with its poll, may take (0: less than a minute).
Durations == {0, 6}

\* Minutes one backoff interval may last.
Intervals == {1}

\* How a call returns that starts with rem minutes remaining of its context, and
\* the minutes d it took: "ctx" when the context ended it, "done" when the
\* provider answered.
Timed(rem) ==
    IF rem <= 0 THEN {[d |-> 0, how |-> "ctx", sent |-> FALSE]}
    ELSE {IF dt >= rem THEN [d |-> rem, how |-> "ctx", sent |-> TRUE]
                       ELSE [d |-> dt, how |-> "done", sent |-> TRUE] : dt \in Durations}

\* retryWithBackoff with a backoff that is not bound to the context.
retryIgnoringContext(r, rem, elapsed, next) ==
    IF r.err = Nil THEN [kind |-> "ok", err |-> Nil, d |-> r.d]
    ELSE IF r.perm THEN [kind |-> "fail", err |-> r.err, d |-> r.d]
    ELSE IF elapsed + r.d + next > maxRetryTime THEN [kind |-> "fail", err |-> r.err, d |-> r.d]
    ELSE [kind |-> "again", err |-> r.err, d |-> r.d + next]

\* retryWithBackoff with a backoff that does not return when the operation
\* succeeds after an earlier failure.
retryPastSuccess(r, rem, elapsed, next) ==
    IF r.err = Nil /\ elapsed = 0 THEN [kind |-> "ok", err |-> Nil, d |-> r.d]
    ELSE IF r.perm THEN [kind |-> "fail", err |-> r.err, d |-> r.d]
    ELSE IF rem - r.d <= 0 THEN [kind |-> "fail", err |-> ctxErr, d |-> r.d]
    ELSE IF elapsed + r.d + next > maxRetryTime THEN [kind |-> "fail", err |-> r.err, d |-> r.d]
    ELSE IF next >= rem - r.d THEN [kind |-> "fail", err |-> ctxErr, d |-> rem]
    ELSE [kind |-> "again", err |-> r.err, d |-> r.d + next]

\* retryWithBackoff with a backoff that answers every stop with the context's error.
retryStoppingWithContextError(r, rem, elapsed, next) ==
    IF r.err = Nil THEN [kind |-> "ok", err |-> Nil, d |-> r.d]
    ELSE IF r.perm THEN [kind |-> "fail", err |-> r.err, d |-> r.d]
    ELSE IF rem - r.d <= 0 THEN [kind |-> "fail", err |-> ctxErr, d |-> r.d]
    ELSE IF elapsed + r.d + next > maxRetryTime THEN [kind |-> "fail", err |-> ctxErr, d |-> r.d]
    ELSE IF next >= rem - r.d THEN [kind |-> "fail", err |-> ctxErr, d |-> rem]
    ELSE [kind |-> "again", err |-> r.err, d |-> r.d + next]

\* retryWithBackoff with MaxElapsedTime = 0: no budget of its own.
retryWithoutBudget(r, rem, elapsed, next) ==
    IF r.err = Nil THEN [kind |-> "ok", err |-> Nil, d |-> r.d]
    ELSE IF r.perm THEN [kind |-> "fail", err |-> r.err, d |-> r.d]
    ELSE IF rem - r.d <= 0 THEN [kind |-> "fail", err |-> ctxErr, d |-> r.d]
    ELSE IF next >= rem - r.d THEN [kind |-> "fail", err |-> ctxErr, d |-> rem]
    ELSE [kind |-> "again", err |-> r.err, d |-> r.d + next]

\* retryWithBackoff with a backoff that never stops: neither the budget nor
\* the context ends it.
retryForever(r, rem, elapsed, next) ==
    IF r.err = Nil THEN [kind |-> "ok", err |-> Nil, d |-> r.d]
    ELSE [kind |-> "again", err |-> r.err, d |-> r.d + next]

\* backoff.Retry after one invocation of the operation returned r = [err, perm, d]
\* (perm: wrapped by backoff.Permanent; d: the minutes it took), started with rem
\* minutes remaining of the context and elapsed minutes since the retry began,
\* the next interval drawn as next. The result says how the loop goes on and the
\* minutes d that have passed by then.
retryWithBackoff(r, rem, elapsed, next) ==
    IF r.err = Nil THEN [kind |-> "ok", err |-> Nil, d |-> r.d]
    ELSE IF r.perm THEN [kind |-> "fail", err |-> r.err, d |-> r.d]
    ELSE IF rem - r.d <= 0 THEN [kind |-> "fail", err |-> ctxErr, d |-> r.d]
    ELSE IF elapsed + r.d + next > maxRetryTime THEN [kind |-> "fail", err |-> r.err, d |-> r.d]
    ELSE IF next >= rem - r.d THEN [kind |-> "fail", err |-> ctxErr, d |-> rem]
    ELSE [kind |-> "again", err |-> r.err, d |-> r.d + next]

\* beginError without the classification of the error.
beginErrorUnclassified(err, msg) == [err |-> Wrap(msg, err), perm |-> FALSE]

\* The error an operation closure returns for a failed initiating call.
beginError(err, msg) ==
    IF isPermanentError(err) THEN [err |-> err, perm |-> TRUE]
    ELSE [err |-> Wrap(msg, err), perm |-> FALSE]

\* The error an operation closure returns for a failed PollUntilDone.
pollError(err, msg) == [err |-> Wrap(msg, err), perm |-> FALSE]

(* ---------------------------------------------------------------------- *)
(* Inputs of a run                                                         *)
(* ---------------------------------------------------------------------- *)

Octo == <<"o","c","t","o">>

\* An owner so long that the resource group name exceeds its limit.
LongOwner == [i \in 1..80 |-> "a"]

Identities ==
    {[owner |-> Octo, repo |-> <<"a","p","p">>, prNumber |-> 7],
     [owner |-> LongOwner, repo |-> <<"a","p","p">>, prNumber |-> 7]}

Actions == {"opened", "synchronize", "reopened", "closed", "labeled"}

\* The actions run answers with a deploy.
DeployActions == {"opened", "synchronize", "reopened"}

EventsOf(actions) == {[action |-> a, id |-> i] : a \in actions, i \in Identities}

Events == EventsOf(Actions)

\* What run finds in its process environment before it derives the names.
Environments ==
    {"GITHUB_EVENT_PATH not set", "failed to read event file:", "failed to parse event:",
     "AZURE_SUBSCRIPTION_ID not set", "ok"}

Tokens == {"", "ghp_token"}

\* The resource group names the valid identities derive.
RGNames ==
    {sanitizeResourceGroupName(i.owner, i.repo, i.prNumber).name :
        i \in {j \in Identities :
                  sanitizeResourceGroupName(j.owner, j.repo, j.prNumber).err = "nil"}}

(* ---------------------------------------------------------------------- *)
(* State                                                                   *)
(* ---------------------------------------------------------------------- *)

VARIABLES
    world,               \* what the process finds: environment, event file, token, descriptor
    pc,                  \* where the run is: start, deploy, ..., done
    event,               \* the decoded GitHubEvent
    cfg,                 \* deployConfig / teardownConfig
    project,             \* the loaded descriptor, <<>> before compose.Load
    containers,          \* []azure.ContainerConfig handed to Deploy
    groups,              \* the provider: resource group name -> its state
    left,                \* minutes left of the context the current step runs under
    retry,               \* the running backoff.Retry: elapsed, attempts, permanent
    calls,               \* the remote operations invoked in this run
    envID,               \* identifier ensureEnvironment returned
    fqdn,                \* endpoint Deploy returned
    deployErr,           \* error Deploy returned
    deploymentSucceeded, \* the flag the deferred rollback reads
    cleanupErr,          \* error of the rollback delete (logged only)
    postErr,             \* error of the Status Reporter (logged only)
    runErr,              \* what run returns; Nil is success
    thread,              \* the comments of the pull request, oldest first
    hist                 \* observations of the run that the properties read

vars ==
    <<world, pc, event, cfg, project, containers, groups, left, retry, calls,
      envID, fqdn, deployErr, deploymentSucceeded, cleanupErr, postErr, runErr,
      thread, hist>>

NoEvent == [action |-> "", id |-> [owner |-> <<>>, repo |-> <<>>, prNumber |-> 0]]

NoCfg ==
    [resourceGroup |-> <<>>, containerName |-> <<>>, dnsLabel |-> <<>>,
     location |-> "", githubToken |-> ""]

Absent == [state |-> "absent", env |-> FALSE, app |-> <<>>]

\* A group that holds the running preview of an earlier successful deploy.
EarlierApp ==
    buildContainerApp([Location |-> "eastus",
                       Containers |-> parseComposeServices(<<WebService>>)], "env-id")

Preview == [state |-> "present", env |-> TRUE, app |-> <<EarlierApp>>]

\* elapsed: minutes since the retry began; attempts: times it went round again;
\* permanent: an invocation of this retry was answered with a permanent error;
\* initiated: the initiating call of one was accepted; succeeded: one returned nil.
NoRetry ==
    [elapsed |-> 0, attempts |-> 0, permanent |-> FALSE,
     initiated |-> FALSE, succeeded |-> FALSE]

\* No invocation has ended yet.
NoResult == [phase |-> "", fault |-> ""]

\* Deploy has not failed on an answer of the provider.
NoCause == [phase |-> "", ans |-> <<>>]

\* No backoff.Retry has returned since the last invocation of an operation.
NoFinished ==
    [op |-> "", kind |-> "", invoked |-> 0, earlier |-> NoRetry, res |-> NoResult,
     returned |-> "", overBudget |-> FALSE, pastDeadline |-> FALSE]

NoHist ==
    [created |-> FALSE,            \* CreateOrUpdate of the group succeeded
     failedStep |-> 0,             \* the step of Deploy that failed, 0: none
     expired |-> FALSE,            \* the context of Deploy ran out during Deploy
     retriedAfterPermanent |-> FALSE,
     reinitiated |-> FALSE,        \* a delete was initiated twice by one call
     submitted |-> {},             \* the application descriptions submitted
     finished |-> NoFinished,      \* the backoff.Retry that has just returned
     deleteCalls |-> 0,            \* calls of DeleteResourceGroup in this run
     succeeded |-> {},             \* the operations whose backoff.Retry returned nil
     cause |-> NoCause,            \* the provider's answer that made Deploy fail
     result |-> <<>>,              \* the application resource the poll returned
     posts |-> 0,                  \* calls of the Status Reporter so far
     postFailed |-> FALSE,         \* one of them returned an error
     createdBeside |-> FALSE,      \* a comment was created beside a marker comment
     earlier |-> <<>>]             \* the runs of the process before this one

\* The state when the process starts and finds one of worlds, the provider
\* holding one of providers.
InitOf(worlds, providers) ==
    /\ world \in worlds
    /\ groups \in providers
    /\ pc = "start"
    /\ event = NoEvent
    /\ cfg = NoCfg
    /\ project = <<>>
    /\ containers = <<>>
    /\ left = 0
    /\ retry = NoRetry
    /\ calls = {}
    /\ envID = ""
    /\ fqdn = ""
    /\ deployErr = Nil
    /\ deploymentSucceeded = FALSE
    /\ cleanupErr = Nil
    /\ postErr = Nil
    /\ runErr = Nil
    /\ thread = <<>>
    /\ hist = NoHist

\* An input that a run does not read is held at one value: only a deploy loads
\* the descriptor, and the token decides nothing but whether the Status
\* Reporter is called.
Relevant(w) ==
    /\ w.event.action \notin DeployActions => w.descriptor = <<WebService>>
    /\ w.token = "" => w.descriptor = <<WebService>>

\* The state when the process starts, its inputs drawn from the given sets.
InitWith(actions, tokens, descriptors) ==
    InitOf({w \in [found : Environments, event : EventsOf(actions),
                   token : tokens, descriptor : descriptors] : Relevant(w)},
           [RGNames -> {Absent, Preview}])

\* One action of each flow: a deploy, a teardown, an ignored action.
Init == InitWith({"opened", "closed", "labeled"}, Tokens, Descriptors)

(* ---------------------------------------------------------------------- *)
(* run (cmd/draftdeploy/main.go)                                           *)
(* ---------------------------------------------------------------------- *)

\* Where run goes for an action, and the timeout of the context it creates.
\* dispatch with "opened" as the only action that deploys.
dispatchOpenedOnly(action) ==
    IF action = "opened" THEN [pc |-> "deploy", timeout |-> deployTimeout]
    ELSE IF action = "closed" THEN [pc |-> "teardown", timeout |-> teardownTimeout]
    ELSE [pc |-> "done", timeout |-> 0]

dispatch(action) ==
    IF action \in DeployActions THEN [pc |-> "deploy", timeout |-> deployTimeout]
    ELSE IF action = "closed" THEN [pc |-> "teardown", timeout |-> teardownTimeout]
    ELSE [pc |-> "done", timeout |-> 0]

Finish(err) ==
    /\ pc' = "done"
    /\ runErr' = err

Run ==
    /\ pc = "start"
    /\ LET found == world.found
           ev == world.event
           token == world.token
           id == ev.id
            rg == sanitizeResourceGroupName(id.owner, id.repo, id.prNumber)
            dns == sanitizeDNSLabel(id.owner, id.repo, id.prNumber)
        IN  IF found # "ok"
            THEN /\ Finish(<<found>>)
                 /\ UNCHANGED <<world, event, cfg, left>>
            ELSE /\ event' = ev
                 /\ IF rg.err # "nil"
                    THEN /\ Finish(<<"invalid resource group name:", rg.err>>)
                         /\ UNCHANGED <<cfg, left>>
                    ELSE IF dns.err # "nil"
                    THEN /\ Finish(<<"invalid DNS label:", dns.err>>)
                         /\ UNCHANGED <<cfg, left>>
                    ELSE /\ cfg' = [resourceGroup |-> rg.name,
                                    containerName |-> containerNameOf(id.prNumber),
                                    dnsLabel |-> dns.name,
                                    location |-> "eastus",
                                    githubToken |-> token]
                         /\ pc' = dispatch(ev.action).pc
                         /\ left' = dispatch(ev.action).timeout
                         /\ runErr' = Nil
    /\ UNCHANGED <<world, thread, project, containers, groups, retry, calls, envID, fqdn,
                   deployErr, deploymentSucceeded, cleanupErr, postErr, hist>>

(* ---------------------------------------------------------------------- *)
(* deploy, up to the call of Deployer.Deploy                               *)
(* ---------------------------------------------------------------------- *)

\* What compose.Load and the construction of the Azure clients may do.
Setups == {"failed to load compose file:", "failed to create Azure credential:",
           "failed to create deployer:", "ok"}

noDeployableServices(cs) == Len(cs) = 0

FreshRetry == NoRetry

\* deferredCleanup with the rollback never run.
deferredCleanupNever(stage, succeeded) == FALSE

\* deferredCleanup with the flag deploymentSucceeded never read.
deferredCleanupAlways(stage, succeeded) == stage # "validate"

\* deferredCleanup with the defer statement at the top of deploy.
deferredCleanupFromTheTop(stage, succeeded) == ~succeeded

\* deferredCleanup with a rollback that spares a group which was there before
\* the run began.
deferredCleanupUnlessExisting(stage, succeeded) ==
    /\ stage # "validate"
    /\ ~succeeded
    /\ \/ hist.earlier = <<>>
       \/ hist.earlier[Len(hist.earlier)].groups[cfg.resourceGroup].state = "absent"

\* Whether the deferred function of deploy deletes the resource group when
\* deploy returns from stage ("validate": before the defer statement, "Deploy",
\* "report") with the flag deploymentSucceeded as given.
deferredCleanup(stage, succeeded) == stage # "validate" /\ ~succeeded

\* Return with the rollback run under what is left of the context of deploy.
ReturnUnderDeployContext(stage, succeeded, err, rem) ==
    /\ runErr' = err
    /\ IF deferredCleanup(stage, succeeded)
       THEN /\ pc' = "rollback"
            /\ left' = rem
            /\ retry' = FreshRetry
       ELSE /\ pc' = "done"
            /\ left' = 0
            /\ retry' = NoRetry

\* deploy returns err with rem minutes left of its context: the deferred
\* rollback runs under a context of its own, or the run is over and its
\* context is cancelled.
Return(stage, succeeded, err, rem) ==
    /\ runErr' = err
    /\ IF deferredCleanup(stage, succeeded)
       THEN /\ pc' = "rollback"
            /\ left' = cleanupTimeout
            /\ retry' = FreshRetry
       ELSE /\ pc' = "done"
            /\ left' = 0
            /\ retry' = NoRetry

DeployPrepare ==
    /\ pc = "deploy"
    /\ \E setup \in Setups :
        LET d == world.descriptor
            cs == parseComposeServices(d)
        IN  IF setup = "failed to load compose file:"
            THEN /\ Return("validate", FALSE, <<setup>>, left)
                 /\ UNCHANGED <<project, containers>>
            ELSE /\ project' = d
                 /\ IF noDeployableServices(cs)
                    THEN /\ Return("validate", FALSE, <<"no deployable services found">>, left)
                         /\ UNCHANGED containers
                    ELSE IF setup # "ok"
                    THEN /\ Return("validate", FALSE, <<setup>>, left)
                         /\ UNCHANGED containers
                    ELSE /\ containers' = cs
                         /\ pc' = "ensureResourceGroup"
                         /\ retry' = FreshRetry
                         /\ UNCHANGED <<runErr, left>>
    /\ UNCHANGED <<world, thread, event, cfg, groups, calls, envID, fqdn,
                   deployErr, deploymentSucceeded, cleanupErr, postErr, hist>>

(* ---------------------------------------------------------------------- *)
(* Deployer.Deploy: one action per invocation of a retried operation       *)
(* ---------------------------------------------------------------------- *)

DeploySteps == {"ensureResourceGroup", "ensureEnvironment", "createContainerApp"}

\* The record of one remote operation: which, and on which resource group.
Call(op, c) == [op |-> op, rg |-> c.resourceGroup]

Called(op) == \E c \in calls : c.op = op

\* Which phase of an operation an answer or a timeout belongs to.
Phases == {"begin", "poll"}

\* How one invocation of an operation ended: in which phase, and with which
\* kind of fault ("none": the operation returned nil).
Result(call, phase, ans) ==
    [phase |-> phase,
     fault |-> IF call.how = "ctx" THEN "ctx"
               ELSE IF ans = Nil THEN "none"
               ELSE IF isPermanentError(ans) THEN "permanent"
               ELSE "transient"]

\* The retry goes round again, at most MaxAttempts times, after an invocation
\* that ended as res.
Again(out, res) ==
    /\ retry.attempts < MaxAttempts
    /\ retry' = [elapsed |-> retry.elapsed + out.d,
                 attempts |-> retry.attempts + 1,
                 permanent |-> retry.permanent \/ res.fault = "permanent",
                 initiated |-> retry.initiated \/ res.phase = "poll",
                 succeeded |-> retry.succeeded \/ res.fault = "none"]
    /\ left' = left - out.d

\* What is known of the backoff.Retry of operation op once the invocation call,
\* which returned r and ended as res, has made it return or go round again:
\* the invocations it made, what is known of the earlier ones, how the last one
\* ended, which error the retry returned (nil, the last invocation's, the
\* context's), whether the next interval would have taken the elapsed time
\* past the budget, and whether the context would have ended within it.
Finishing(op, call, r, out, next, res) ==
    IF out.kind = "again" THEN NoFinished
    ELSE [op |-> op, kind |-> out.kind, invoked |-> retry.attempts + 1,
          earlier |-> [retry EXCEPT !.elapsed = 0, !.attempts = 0], res |-> res,
          returned |-> IF out.err = Nil THEN "nil"
                       ELSE IF out.err = r.err THEN "last"
                       ELSE IF out.err = ctxErr THEN "ctx"
                       ELSE "other",
          overBudget |-> retry.elapsed + call.d + next > maxRetryTime,
          pastDeadline |-> next >= left - call.d]

\* Deploy returns err to deploy, which wraps it and returns.
DeployFails(err, rem) ==
    /\ deployErr' = err
    /\ Return("Deploy", deploymentSucceeded, Wrap("failed to deploy:", err), rem)

\* The bookkeeping every invocation of an operation of Deploy shares.
Observe(step, out, created, app, fin, phase, ans) ==
    hist' = [hist EXCEPT
                !.finished = fin,
                !.succeeded = IF out.kind = "ok" THEN @ \cup {fin.op} ELSE @,
                !.cause = IF out.kind = "fail" THEN [phase |-> phase, ans |-> ans] ELSE @,
                !.created = @ \/ created,
                !.failedStep = IF out.kind = "fail" THEN step ELSE @,
                !.expired = @ \/ left - out.d <= 0,
                !.retriedAfterPermanent = @ \/ retry.permanent,
                !.submitted = @ \cup app]

\* The operation closure of ensureResourceGroup: one CreateOrUpdate.
ensureResourceGroupOp(call, ans) ==
    IF call.how = "ctx" THEN [err |-> ctxErr, perm |-> FALSE]
    ELSE IF ans = Nil THEN [err |-> Nil, perm |-> FALSE]
    ELSE IF isPermanentError(ans) THEN [err |-> ans, perm |-> TRUE]
    ELSE [err |-> ans, perm |-> FALSE]

\* ensureResourceGroup, the provider failing a request with one of faults.
EnsureResourceGroupOn(faults) ==
    /\ pc = "ensureResourceGroup"
    /\ \E call \in Timed(left), next \in Intervals,
          ans \in {Nil} \cup faults, landed \in BOOLEAN :
        LET op == ensureResourceGroupOp(call, ans)
            out == retryWithBackoff([err |-> op.err, perm |-> op.perm, d |-> call.d],
                                    left, retry.elapsed, next)
            created == IF call.how = "done" THEN ans = Nil ELSE call.sent /\ landed
            rg == cfg.resourceGroup
        IN  /\ call.how = "ctx" => ans = Nil
            /\ call.how = "done" => ~landed
            /\ calls' = calls \cup {Call("create", cfg)}
            /\ groups' = IF created
                         THEN [groups EXCEPT ![rg] = [@ EXCEPT !.state = "present"]]
                         ELSE groups
            /\ Observe(1, out, created, {},
                       Finishing("create", call, op, out, next, Result(call, "begin", ans)),
                       "begin", ans)
            /\ CASE out.kind = "ok" ->
                       /\ pc' = "ensureEnvironment"
                       /\ retry' = FreshRetry
                       /\ left' = left - out.d
                       /\ UNCHANGED <<deployErr, runErr>>
                 [] out.kind = "again" ->
                       /\ Again(out, Result(call, "begin", ans))
                       /\ UNCHANGED <<pc, deployErr, runErr>>
                 [] out.kind = "fail" ->
                       DeployFails(Wrap("failed to create resource group:", out.err), left - out.d)
    /\ UNCHANGED <<world, thread, event, cfg, project, containers, envID, fqdn,
                   deploymentSucceeded, cleanupErr, postErr>>

EnsureResourceGroup == EnsureResourceGroupOn(Faults)

\* The identifier the provider gives the hosting environment.
EnvIDs == {"/resourceGroups/a/managedEnvironments/dd-pr7-env",
           "/resourceGroups/b/managedEnvironments/dd-pr7-env"}

NoID == <<"environment has no ID">>

\* The operation closure of a begin-then-poll operation: the initiating call
\* is classified, the poll is not.
beginPollOp(call, phase, ans, beginMsg, pollMsg) ==
    IF call.how = "ctx"
    THEN IF phase = "begin" THEN beginError(ctxErr, beginMsg) ELSE pollError(ctxErr, pollMsg)
    ELSE IF ans = Nil THEN [err |-> Nil, perm |-> FALSE]
    ELSE IF phase = "begin" THEN beginError(ans, beginMsg)
    ELSE pollError(ans, pollMsg)

\* The operation closure of ensureEnvironment.
ensureEnvironmentOp(call, phase, ans) ==
    IF call.how = "done" /\ ans = NoID THEN [err |-> NoID, perm |-> FALSE]
    ELSE beginPollOp(call, phase, ans, "failed to create environment:",
                     "failed to wait for environment:")

\* Whether the initiating request reached the provider and was accepted.
Begun(call, phase, ans, landed) ==
    IF call.how = "done" THEN ans = Nil \/ phase = "poll"
    ELSE call.sent /\ (phase = "poll" \/ landed)

\* The choices of one invocation that mean the same are taken once.
Canonical(call, phase, ans, landed) ==
    /\ call.how = "ctx" => ans = Nil
    /\ (call.how = "done" /\ ans = Nil) => phase = "poll"
    /\ landed => (call.how = "ctx" /\ call.sent /\ phase = "begin")

EnsureEnvironment ==
    /\ pc = "ensureEnvironment"
    /\ \E call \in Timed(left), next \in Intervals, phase \in Phases,
          ans \in {Nil, NoID} \cup Faults, landed \in BOOLEAN, id \in EnvIDs :
        LET op == ensureEnvironmentOp(call, phase, ans)
            out == retryWithBackoff([err |-> op.err, perm |-> op.perm, d |-> call.d],
                                    left, retry.elapsed, next)
            rg == cfg.resourceGroup
        IN  /\ Canonical(call, phase, ans, landed)
            /\ ans = NoID => phase = "poll"
            /\ calls' = calls \cup {Call("env", cfg)}
            /\ groups' = IF Begun(call, phase, ans, landed)
                         THEN [groups EXCEPT ![rg] = [@ EXCEPT !.env = TRUE]]
                         ELSE groups
            /\ Observe(2, out, FALSE, {},
                       Finishing("env", call, op, out, next, Result(call, phase, ans)),
                       phase, ans)
            /\ CASE out.kind = "ok" ->
                       /\ pc' = "createContainerApp"
                       /\ envID' = id
                       /\ retry' = FreshRetry
                       /\ left' = left - out.d
                       /\ UNCHANGED <<deployErr, runErr>>
                 [] out.kind = "again" ->
                       /\ Again(out, Result(call, phase, ans))
                       /\ UNCHANGED <<pc, envID, deployErr, runErr>>
                 [] out.kind = "fail" ->
                       /\ DeployFails(out.err, left - out.d)
                       /\ UNCHANGED envID
    /\ UNCHANGED <<world, thread, event, cfg, project, containers, fqdn,
                   deploymentSucceeded, cleanupErr, postErr>>

\* A pointer field is <<>> when nil and <<v>> when it points to v.
WithFqdn(f) ==
    [Properties |-> <<[Configuration |-> <<[Ingress |-> <<[Fqdn |-> f]>>]>>]>>]

\* The completed application resources the provider may return.
AppResults ==
    {[Properties |-> <<>>],
     [Properties |-> <<[Configuration |-> <<>>]>>],
     [Properties |-> <<[Configuration |-> <<[Ingress |-> <<>>]>>]>>],
     WithFqdn(<<>>),
     WithFqdn(<<"dd-pr7.eastus.azurecontainerapps.io">>)}

\* extractFQDN returning a name together with the error.
extractFQDNWithPartialResult(result) ==
    IF result.Properties = <<>>
    THEN [fqdn |-> "unknown", err |-> <<"container app has no properties">>]
    ELSE IF result.Properties[1].Configuration = <<>>
    THEN [fqdn |-> "unknown", err |-> <<"container app has no configuration">>]
    ELSE IF result.Properties[1].Configuration[1].Ingress = <<>>
    THEN [fqdn |-> "unknown", err |-> <<"container app has no ingress">>]
    ELSE IF result.Properties[1].Configuration[1].Ingress[1].Fqdn = <<>>
    THEN [fqdn |-> "unknown", err |-> <<"container app has no FQDN">>]
    ELSE [fqdn |-> result.Properties[1].Configuration[1].Ingress[1].Fqdn[1], err |-> Nil]

\* extractFQDN with one error for missing properties and missing configuration.
extractFQDNThreeChecks(result) ==
    IF result.Properties = <<>>
    THEN [fqdn |-> "", err |-> <<"container app has no properties">>]
    ELSE IF result.Properties[1].Configuration = <<>>
    THEN [fqdn |-> "", err |-> <<"container app has no properties">>]
    ELSE IF result.Properties[1].Configuration[1].Ingress = <<>>
    THEN [fqdn |-> "", err |-> <<"container app has no ingress">>]
    ELSE IF result.Properties[1].Configuration[1].Ingress[1].Fqdn = <<>>
    THEN [fqdn |-> "", err |-> <<"container app has no FQDN">>]
    ELSE [fqdn |-> result.Properties[1].Configuration[1].Ingress[1].Fqdn[1], err |-> Nil]

extractFQDN(result) ==
    IF result.Properties = <<>>
    THEN [fqdn |-> "", err |-> <<"container app has no properties">>]
    ELSE IF result.Properties[1].Configuration = <<>>
    THEN [fqdn |-> "", err |-> <<"container app has no configuration">>]
    ELSE IF result.Properties[1].Configuration[1].Ingress = <<>>
    THEN [fqdn |-> "", err |-> <<"container app has no ingress">>]
    ELSE IF result.Properties[1].Configuration[1].Ingress[1].Fqdn = <<>>
    THEN [fqdn |-> "", err |-> <<"container app has no FQDN">>]
    ELSE [fqdn |-> result.Properties[1].Configuration[1].Ingress[1].Fqdn[1], err |-> Nil]

\* The azure.DeployConfig that deploy hands to Deploy.
DeployConfigOf(c, cs) ==
    [ResourceGroup |-> c.resourceGroup, Name |-> c.containerName,
     Location |-> c.location, Containers |-> cs]

\* The operation closure of the application submission in Deploy.
createContainerAppOp(call, phase, ans) ==
    beginPollOp(call, phase, ans, "failed to create container app:",
                "failed to wait for container app:")

CreateContainerApp ==
    /\ pc = "createContainerApp"
    /\ \E call \in Timed(left), next \in Intervals, phase \in Phases,
          ans \in {Nil} \cup Faults, landed \in BOOLEAN, result \in AppResults :
        LET containerApp == buildContainerApp(DeployConfigOf(cfg, containers), envID)
            op == createContainerAppOp(call, phase, ans)
            out == retryWithBackoff([err |-> op.err, perm |-> op.perm, d |-> call.d],
                                    left, retry.elapsed, next)
            got == extractFQDN(result)
            rg == cfg.resourceGroup
            failed == out.kind = "fail" \/ (out.kind = "ok" /\ got.err # Nil)
        IN  /\ Canonical(call, phase, ans, landed)
            /\ out.kind # "ok" => result = WithFqdn(<<>>)
            /\ calls' = calls \cup {Call("app", cfg)}
            /\ groups' = IF Begun(call, phase, ans, landed)
                         THEN [groups EXCEPT ![rg] = [@ EXCEPT !.app = <<containerApp>>]]
                         ELSE groups
            /\ hist' = [hist EXCEPT
                           !.failedStep = IF out.kind = "fail" THEN 4
                                          ELSE IF failed THEN 5 ELSE @,
                           !.expired = @ \/ left - out.d <= 0,
                           !.retriedAfterPermanent = @ \/ retry.permanent,
                           !.submitted = @ \cup {containerApp},
                           !.finished = Finishing("app", call, op, out, next,
                                                  Result(call, phase, ans)),
                           !.succeeded = IF out.kind = "ok" THEN @ \cup {"app"} ELSE @,
                           !.cause = IF out.kind = "fail"
                                     THEN [phase |-> phase, ans |-> ans] ELSE @,
                           !.result = IF out.kind = "ok" THEN <<result>> ELSE @]
            /\ CASE out.kind = "ok" /\ got.err = Nil ->
                       /\ pc' = "report"
                       /\ fqdn' = got.fqdn
                       /\ left' = left - out.d
                       /\ retry' = FreshRetry
                       /\ UNCHANGED <<deployErr, runErr>>
                 [] out.kind = "ok" /\ got.err # Nil ->
                       /\ DeployFails(got.err, left - out.d)
                       /\ fqdn' = got.fqdn
                 [] out.kind = "again" ->
                       /\ Again(out, Result(call, phase, ans))
                       /\ UNCHANGED <<pc, fqdn, deployErr, runErr>>
                 [] out.kind = "fail" ->
                       /\ DeployFails(out.err, left - out.d)
                       /\ UNCHANGED fqdn
    /\ UNCHANGED <<world, thread, event, cfg, project, containers, envID,
                   deploymentSucceeded, cleanupErr, postErr>>

(* ---------------------------------------------------------------------- *)
(* Deployer.DeleteResourceGroup                                            *)
(* ---------------------------------------------------------------------- *)

\* deleteResourceGroupOp with the error of the poll dropped.
deleteWithoutWaiting(call, phase, ans) ==
    IF phase = "poll" THEN [err |-> Nil, perm |-> FALSE]
    ELSE beginPollOp(call, phase, ans, "failed to delete resource group:",
                     "failed to wait for resource group deletion:")

\* deleteResourceGroupOp with every error dropped.
deleteIgnoringErrors(call, phase, ans) == [err |-> Nil, perm |-> FALSE]

\* The operation closure of DeleteResourceGroup.
deleteResourceGroupOp(call, phase, ans) ==
    beginPollOp(call, phase, ans, "failed to delete resource group:",
                "failed to wait for resource group deletion:")

\* AfterDelete with a delete that leaves the group as it is.
AfterDeleteKeepsGroup(g, call, phase, ans, landed) == g

\* The group after one invocation of the operation: gone once the poll is
\* done, being deleted once the delete was accepted.
AfterDelete(g, call, phase, ans, landed) ==
    IF g.state = "absent" THEN g
    ELSE IF call.how = "done" /\ ans = Nil THEN Absent
    ELSE IF Begun(call, phase, ans, landed) THEN [g EXCEPT !.state = "deleting"]
    ELSE g

\* What backoff.Retry does after one invocation of the operation.
DeleteOutcome(call, next, phase, ans) ==
    LET op == deleteResourceGroupOp(call, phase, ans)
    IN  retryWithBackoff([err |-> op.err, perm |-> op.perm, d |-> call.d],
                         left, retry.elapsed, next)

\* One invocation of the operation under the context of deadline dl. The
\* provider refuses the delete of a group that does not exist.
DeleteAttempt(call, next, phase, ans, landed) ==
    LET rg == cfg.resourceGroup
        op == deleteResourceGroupOp(call, phase, ans)
    IN  /\ Canonical(call, phase, ans, landed)
        /\ (groups[rg].state = "absent" /\ call.how = "done") =>
               (phase = "begin" /\ ans # Nil)
        /\ (groups[rg].state = "absent" /\ call.how = "ctx") => phase = "begin" /\ ~landed
        /\ (groups[rg].state # "absent") => ans # NotFound
        /\ calls' = calls \cup {Call("delete", cfg)}
        /\ groups' = [groups EXCEPT ![rg] = AfterDelete(@, call, phase, ans, landed)]
        /\ hist' = [hist EXCEPT
                       !.retriedAfterPermanent = @ \/ retry.permanent,
                       !.reinitiated = @ \/ (retry.initiated /\ phase = "poll"),
                       !.deleteCalls = IF retry.attempts = 0 THEN @ + 1 ELSE @,
                       !.succeeded = IF DeleteOutcome(call, next, phase, ans).kind = "ok"
                                     THEN @ \cup {"delete"} ELSE @,
                       !.finished = Finishing("delete", call, op,
                                              DeleteOutcome(call, next, phase, ans),
                                              next, Result(call, phase, ans))]

\* afterCleanup with the rollback's error assigned to deploy's result.
afterCleanupReturnsCleanup(returned, cleanup) ==
    IF cleanup = Nil THEN returned ELSE Wrap("failed to cleanup resource group:", cleanup)

\* What deploy returns once the deferred rollback has run: the rollback's
\* error is logged and dropped.
afterCleanup(returned, cleanup) == returned

\* The deferred function of deploy: DeleteResourceGroup under cleanupCtx.
Rollback ==
    /\ pc = "rollback"
    /\ \E call \in Timed(left), next \in Intervals, phase \in Phases,
          ans \in {Nil, NotFound} \cup Faults, landed \in BOOLEAN :
        LET out == DeleteOutcome(call, next, phase, ans)
        IN  /\ DeleteAttempt(call, next, phase, ans, landed)
            /\ CASE out.kind = "again" ->
                       /\ Again(out, Result(call, phase, ans))
                       /\ UNCHANGED <<pc, cleanupErr, runErr>>
                 [] OTHER ->
                       /\ pc' = "done"
                       /\ cleanupErr' = out.err
                       /\ runErr' = afterCleanup(runErr, out.err)
                       /\ left' = 0
                       /\ retry' = NoRetry
    /\ UNCHANGED <<world, thread, event, cfg, project, containers, envID, fqdn,
                   deployErr, deploymentSucceeded, postErr>>

(* ---------------------------------------------------------------------- *)
(* Status Reporter (internal/github/comment.go)                            *)
(* ---------------------------------------------------------------------- *)

\* A text is the sequence of its lines, as strings.Split(text, "\n") gives
\* them; a line is the sequence of its pieces, single characters and fixed
\* phrases. The text "" is one empty line.
NoText == <<<<>>>>

\* The text of one line without, and with, the "\n" that ends it.
Str(line) == <<line>>

Ln(line) == <<line, <<>>>>

\* Text a followed by text b, as two WriteString calls leave them.
Cat(a, b) == SubSeq(a, 1, Len(a) - 1) \o <<a[Len(a)] \o b[1]>> \o Tail(b)

\* The text of the given lines, each ended by "\n".
Lines(ls) == ls \o <<<<>>>>

\* strings.Contains(line, phrase) and strings.HasPrefix(line, phrase).
Contains(line, phrase) == phrase \in Range(line)

HasPrefix(line, phrase) == line # <<>> /\ line[1] = phrase

commentMarker == "<!-- draftdeploy -->"

\* The phrases the Status Reporter writes and looks for. The headings carry
\* an emoji before the words in the source.
PreviewReady == "Preview Ready"

PreviewRemoved == "Preview Removed"

VisitPreview == "[Visit Preview]"

DeploymentHistory == "Deployment History"

\* The backquote that opens a commit in a history row is written as a quote.
RowStart == "| '"

DetailsEnd == "</details>"

PoweredBy ==
    <<"*", "Powered by", " [DraftDeploy](https://github.com/LoriKarikari/draftdeploy)*">>

\* The comments GitHub returns for one request when no page size is asked for.
perPage == 30

RECURSIVE formatPorts(_)
formatPorts(ports) ==
    IF ports = <<>> THEN <<"none">>
    ELSE IF Len(ports) = 1 THEN Itoa(ports[1])
    ELSE Itoa(ports[1]) \o <<", ">> \o formatPorts(Tail(ports))

\* The rows that the loop of extractDeployHistory collects: a line with the
\* summary phrase opens the history and is itself skipped; from then on every
\* line that starts a row is taken, up to the first line that starts with the
\* closing tag.
historyRows(lines) ==
    LET Opens(i) == Contains(lines[i], DeploymentHistory)
        opening == {i \in 1..Len(lines) : Opens(i)}
        start == CHOOSE i \in opening : \A j \in opening : i <= j
        closing == {i \in (start + 1)..Len(lines) :
                       ~Opens(i) /\ HasPrefix(lines[i], DetailsEnd)}
        end == IF closing = {} THEN Len(lines) + 1
               ELSE CHOOSE i \in closing : \A j \in closing : i <= j
        IsRow(line) == ~Contains(line, DeploymentHistory) /\ HasPrefix(line, RowStart)
    IN  IF opening = {} THEN <<>>
        ELSE SelectSeq(SubSeq(lines, start + 1, end - 1), IsRow)

\* extractDeployHistory without the cut to nine rows.
extractDeployHistoryUncut(body) ==
    IF body = NoText THEN <<>> ELSE historyRows(body)

extractDeployHistory(body) ==
    IF body = NoText THEN <<>>
    ELSE LET history == historyRows(body)
         IN  IF Len(history) > 9 THEN SubSeq(history, 1, 9) ELSE history

formatDeploymentComment(info, existingBody) ==
    LET rows == IF Len(info.Services) > 0
                THEN [i \in 1..Len(info.Services) |->
                         <<"| ">> \o info.Services[i].Name \o <<" | ">>
                         \o formatPorts(info.Services[i].Ports) \o <<" |">>]
                ELSE << <<"| - | - |">> >>
        shortSHA == IF Len(info.CommitSHA) > 7 THEN SubSeq(info.CommitSHA, 1, 7)
                    ELSE info.CommitSHA
        newest == <<RowStart>> \o shortSHA \o <<"' | ", "Ready", " | ">>
                  \o Itoa(info.DeployTime) \o <<"s |">>
    IN  Lines(<< <<commentMarker>>,
                 <<"### ", PreviewReady>>,
                 <<>>,
                 <<"| Name | Link |">>,
                 <<"|------|------|">>,
                 <<"| **Preview** | ", VisitPreview, "(http://", info.FQDN, ") |">>,
                 <<>>,
                 <<"**Services:**">>,
                 <<>>,
                 <<"| Service | Ports |">>,
                 <<"|---------|-------|">> >>
              \o rows
              \o << <<>>,
                    <<"<details><summary><b>", DeploymentHistory, "</b></summary>">>,
                    <<>>,
                    <<"| Commit | Status | Time |">>,
                    <<"|--------|--------|------|">>,
                    newest >>
              \o extractDeployHistory(existingBody)
              \o << <<>>, <<DetailsEnd>>, <<>>, <<"---">>, PoweredBy >>)

\* What the loop of formatTeardownFromExisting writes: the heading and the
\* link row are replaced, a line with "Deployed in" is dropped, every other
\* line is written as it is; each written line is ended by "\n" except an
\* unreplaced last line.
teardownLines(lines) ==
    LET n == Len(lines)
        Written(i) ==
            IF Contains(lines[i], PreviewReady)
            THEN [keep |-> TRUE, line |-> <<"### ", PreviewRemoved>>]
            ELSE IF Contains(lines[i], VisitPreview)
            THEN [keep |-> TRUE, line |-> <<"| **Preview** | ", "~~Removed~~", " |">>]
            ELSE IF Contains(lines[i], "Deployed in")
            THEN [keep |-> FALSE, line |-> <<>>]
            ELSE [keep |-> i < n, line |-> lines[i]]
        Keep(w) == w.keep
        kept == SelectSeq([i \in 1..n |-> Written(i)], Keep)
        last == Written(n)
        open == IF ~last.keep /\ ~Contains(lines[n], "Deployed in")
                THEN lines[n] ELSE <<>>
    IN  [i \in 1..Len(kept) |-> kept[i].line] \o <<open>>

formatTeardownFromExisting(existingBody) ==
    IF existingBody = NoText
    THEN Lines(<< <<commentMarker>>,
                  <<"### ", PreviewRemoved>>,
                  <<>>,
                  <<"The preview environment has been torn down.">>,
                  <<>>,
                  <<"---">>,
                  PoweredBy >>)
    ELSE Cat(teardownLines(existingBody),
             Cat(Ln(<<>>), Lines(<< <<"---">>, PoweredBy >>)))

\* Issues.ListComments without options: the first page of the thread.
ListComments(t) == SubSeq(t, 1, IF Len(t) < perPage THEN Len(t) ELSE perPage)

\* strings.Contains(body, commentMarker): the marker has no line break in it.
HasMarker(body) == \E i \in 1..Len(body) : Contains(body[i], commentMarker)

\* findExistingComment: the first listed comment with the marker, or none.
findExistingComment(t) ==
    LET comments == ListComments(t)
        marked == {i \in 1..Len(comments) : HasMarker(comments[i].Body)}
        first == CHOOSE i \in marked : \A j \in marked : i <= j
    IN  IF marked = {} THEN [id |-> 0, body |-> NoText]
        ELSE [id |-> comments[first].ID, body |-> comments[first].Body]

\* Issues.EditComment and Issues.CreateComment; GitHub numbers the comments.
EditComment(t, id, body) ==
    [i \in 1..Len(t) |-> IF t[i].ID = id THEN [t[i] EXCEPT !.Body = body] ELSE t[i]]

CreateComment(t, body) == Append(t, [ID |-> Len(t) + 1, Body |-> body])

\* What GitHub may refuse: nothing, the listing, the edit or creation.
PostFaults == {"none", "list", "write"}

\* The common end of PostDeployment and PostTeardown: edit the comment found,
\* create one when none was found.
upsert(t, existing, body, fault) ==
    IF existing.id # 0
    THEN IF fault = "write"
         THEN [thread |-> t, err |-> <<"failed to update comment:">>, created |-> FALSE]
         ELSE [thread |-> EditComment(t, existing.id, body), err |-> Nil, created |-> FALSE]
    ELSE IF fault = "write"
         THEN [thread |-> t, err |-> <<"failed to create comment:">>, created |-> FALSE]
         ELSE [thread |-> CreateComment(t, body), err |-> Nil, created |-> TRUE]

PostDeployment(t, info, fault) ==
    IF fault = "list"
    THEN [thread |-> t, err |-> <<"failed to find existing comment:">>, created |-> FALSE]
    ELSE LET existing == findExistingComment(t)
         IN  upsert(t, existing, formatDeploymentComment(info, existing.body), fault)

PostTeardown(t, fault) ==
    IF fault = "list"
    THEN [thread |-> t, err |-> <<"failed to find existing comment:">>, created |-> FALSE]
    ELSE LET existing == findExistingComment(t)
         IN  upsert(t, existing, formatTeardownFromExisting(existing.body), fault)

\* The []github.ServiceInfo that parseComposeServices returns beside the
\* containers: the same names and ports.
ServiceInfos(cs) == [i \in 1..Len(cs) |-> [Name |-> cs[i].Name, Ports |-> cs[i].Ports]]

(* ---------------------------------------------------------------------- *)
(* Status Reporter calls and the end of deploy                             *)
(* ---------------------------------------------------------------------- *)

\* What PostDeployment and PostTeardown may return.
PostErrors ==
    {Nil, <<"failed to find existing comment:">>, <<"failed to update comment:">>,
     <<"failed to create comment:">>}

\* afterPost with the Status Reporter's error returned.
afterPostReturnsError(err) == IF err = Nil THEN Nil ELSE Wrap("failed to post comment:", err)

\* What deploy and teardown return after the Status Reporter returned err:
\* the error is logged and dropped.
afterPost(err) == Nil

\* The DeploymentInfo deploy posts: the endpoint, the services, the seconds
\* the deploy took; it names no commit.
DeploymentInfoOf(endpoint, cs, minutes) ==
    [FQDN |-> endpoint, Services |-> ServiceInfos(cs), DeployTime |-> 60 * minutes,
     CommitSHA |-> <<>>]

Report ==
    /\ pc = "report"
    /\ \E fault \in PostFaults :
        LET info == DeploymentInfoOf(fqdn, containers, deployTimeout - left)
            post == PostDeployment(thread, info, fault)
            perr == IF cfg.githubToken = "" THEN Nil ELSE post.err
            ret == afterPost(perr)
        IN  /\ cfg.githubToken = "" => fault = "none"
            /\ perr \in PostErrors
            /\ postErr' = perr
            /\ thread' = IF cfg.githubToken = "" THEN thread ELSE post.thread
            /\ calls' = IF cfg.githubToken = "" THEN calls ELSE calls \cup {Call("post", cfg)}
            /\ deploymentSucceeded' = (ret = Nil)
            /\ Return("report", ret = Nil, ret, left)
    /\ UNCHANGED <<world, event, cfg, project, containers, groups, envID, fqdn,
                   deployErr, cleanupErr, hist>>

(* ---------------------------------------------------------------------- *)
(* teardown                                                                *)
(* ---------------------------------------------------------------------- *)

TeardownSetups == {"failed to create Azure credential:", "failed to create deployer:", "ok"}

TeardownPrepare ==
    /\ pc = "teardown"
    /\ \E setup \in TeardownSetups :
        IF setup # "ok"
        THEN /\ Finish(<<setup>>)
             /\ UNCHANGED retry
        ELSE /\ pc' = "teardownDelete"
             /\ retry' = FreshRetry
             /\ UNCHANGED runErr
    /\ UNCHANGED <<world, thread, event, cfg, project, containers, groups, left, calls, envID,
                   fqdn, deployErr, deploymentSucceeded, cleanupErr, postErr, hist>>

\* TeardownDelete with a teardown that goes on to the comment when the delete
\* has failed.
TeardownDeleteThenReport ==
    /\ pc = "teardownDelete"
    /\ \E call \in Timed(left), next \in Intervals, phase \in Phases,
          ans \in {Nil, NotFound} \cup Faults, landed \in BOOLEAN :
        LET out == DeleteOutcome(call, next, phase, ans)
        IN  /\ DeleteAttempt(call, next, phase, ans, landed)
            /\ CASE out.kind = "again" ->
                       /\ Again(out, Result(call, phase, ans))
                       /\ UNCHANGED <<pc, runErr>>
                 [] OTHER ->
                       /\ pc' = "teardownReport"
                       /\ left' = left - out.d
                       /\ UNCHANGED <<retry, runErr>>
    /\ UNCHANGED <<world, thread, event, cfg, project, containers, envID, fqdn,
                   deployErr, deploymentSucceeded, cleanupErr, postErr>>

TeardownDelete ==
    /\ pc = "teardownDelete"
    /\ \E call \in Timed(left), next \in Intervals, phase \in Phases,
          ans \in {Nil, NotFound} \cup Faults, landed \in BOOLEAN :
        LET out == DeleteOutcome(call, next, phase, ans)
        IN  /\ DeleteAttempt(call, next, phase, ans, landed)
            /\ CASE out.kind = "ok" ->
                       /\ pc' = "teardownReport"
                       /\ left' = left - out.d
                       /\ UNCHANGED <<retry, runErr>>
                 [] out.kind = "again" ->
                       /\ Again(out, Result(call, phase, ans))
                       /\ UNCHANGED <<pc, runErr>>
                 [] out.kind = "fail" ->
                       /\ Finish(Wrap("failed to delete resource group:", out.err))
                       /\ left' = 0
                       /\ retry' = NoRetry
    /\ UNCHANGED <<world, thread, event, cfg, project, containers, envID, fqdn,
                   deployErr, deploymentSucceeded, cleanupErr, postErr>>

TeardownReport ==
    /\ pc = "teardownReport"
    /\ \E fault \in PostFaults :
        LET post == PostTeardown(thread, fault)
            perr == IF cfg.githubToken = "" THEN Nil ELSE post.err
        IN  /\ cfg.githubToken = "" => fault = "none"
            /\ perr \in PostErrors
            /\ postErr' = perr
            /\ thread' = IF cfg.githubToken = "" THEN thread ELSE post.thread
            /\ calls' = IF cfg.githubToken = "" THEN calls ELSE calls \cup {Call("post", cfg)}
            /\ Finish(afterPost(perr))
            /\ left' = 0
            /\ retry' = NoRetry
    /\ UNCHANGED <<world, event, cfg, project, containers, groups, envID,
                   fqdn, deployErr, deploymentSucceeded, cleanupErr, hist>>

(* ---------------------------------------------------------------------- *)
(* Specification                                                           *)
(* ---------------------------------------------------------------------- *)

Next ==
    \/ Run
    \/ DeployPrepare
    \/ EnsureResourceGroup
    \/ EnsureEnvironment
    \/ CreateContainerApp
    \/ Report
    \/ Rollback
    \/ TeardownPrepare
    \/ TeardownDelete
    \/ TeardownReport

Spec == Init /\ [][Next]_vars

(* ---------------------------------------------------------------------- *)
(* Specification of the naming: run up to the names it derives             *)
(* ---------------------------------------------------------------------- *)

\* Characters inside and outside the classes the naming keeps.
NamingAlphabet == <<"a", "Z", "7", "_", ".", "-", "/", "@">>

\* The words of one to n characters.
Words(n) == UNION {[1..k -> Range(NamingAlphabet)] : k \in 1..n}

\* len("draftdeploy-") + len("-") + len("app") + len("-pr") + one digit
ShortestFrame == Len(Prefix) + 1 + 3 + 3 + 1

\* Owners that bring the resource group name of app #7 to its limit and just
\* beyond it.
BoundaryOwners ==
    {[i \in 1..(MaxResourceGroupLen - ShortestFrame) |-> "a"],
     [i \in 1..(MaxResourceGroupLen - ShortestFrame + 1) |-> "a"]}

PRNumbers == {7, 123}

\* len("dd-") + len("-") + len("app") + len("-pr") + one digit
ShortestLabelFrame == 3 + 1 + 3 + 3 + 1

\* Owners that bring the DNS label of app #7 to its limit and just beyond it.
LabelBoundaryOwners ==
    {[i \in 1..(MaxDNSLabelLen - ShortestLabelFrame) |-> "a"],
     [i \in 1..(MaxDNSLabelLen - ShortestLabelFrame + 1) |-> "a"]}

\* Two repositories whose owner and name meet at different hyphens of the
\* same string: a-b/c and a/b-c.
SplitIdentities ==
    {[owner |-> <<"a","-","b">>, repo |-> <<"c">>, prNumber |-> 7],
     [owner |-> <<"a">>, repo |-> <<"b","-","c">>, prNumber |-> 7]}

NamingIdentities ==
    {[owner |-> o, repo |-> <<"a","p","p">>, prNumber |-> n] :
        o \in Words(MaxWordLen) \cup BoundaryOwners \cup LabelBoundaryOwners,
        n \in PRNumbers}
    \cup {[owner |-> Octo, repo |-> r, prNumber |-> n] :
              r \in Words(MaxWordLen), n \in PRNumbers}
    \cup SplitIdentities

InitNaming ==
    InitOf([found : {"ok"},
            event : {[action |-> "opened", id |-> i] : i \in NamingIdentities},
            token : {"ghp_token"}, descriptor : {<<WebService>>}],
           {[n \in RGNames |-> Absent]})

NextNaming == Run

SpecNaming == InitNaming /\ [][NextNaming]_vars

(* ---------------------------------------------------------------------- *)
(* The Deployer called with a configuration of the caller's own            *)
(* ---------------------------------------------------------------------- *)

\* azure.ContainerConfig values as a caller of Deploy may write them: with and
\* without ports, environment, CPU and memory.
PlainContainer ==
    [Name |-> <<"d","b">>, Image |-> "postgres:15", Ports |-> <<>>,
     Environment |-> {}, CPU |-> 250, MemoryGB |-> 1000]

WebContainer ==
    [Name |-> <<"w","e","b">>, Image |-> "nginx:alpine", Ports |-> <<8080, 9000>>,
     Environment |-> {<<<<"B","_","V","A","R">>, "b">>, <<<<"A","_","V","A","R">>, "a">>,
                      <<<<"C","_","V","A","R">>, "c">>},
     CPU |-> 0, MemoryGB |-> 0]

ApiContainer ==
    [Name |-> <<"a","p","i">>, Image |-> "api:1", Ports |-> <<3000>>,
     Environment |-> {<<<<"a">>, "1">>, <<<<"Z">>, "">>, <<<<"Z","_">>, "1">>},
     CPU |-> 1000, MemoryGB |-> 250]

ContainerPool == {PlainContainer, WebContainer, ApiContainer}

\* DeployConfig.Containers: one to MaxServices containers of different names.
ContainerLists ==
    {cs \in UNION {[1..n -> ContainerPool] : n \in 1..MaxServices} :
        \A i, j \in 1..Len(cs) : i # j => cs[i].Name # cs[j].Name}

\* The event and the names the caller works for.
TranslatorEvent ==
    [action |-> "opened", id |-> [owner |-> Octo, repo |-> <<"a","p","p">>, prNumber |-> 7]]

TranslatorCfg ==
    [resourceGroup |-> sanitizeResourceGroupName(Octo, <<"a","p","p">>, 7).name,
     containerName |-> containerNameOf(7),
     dnsLabel |-> sanitizeDNSLabel(Octo, <<"a","p","p">>, 7).name,
     location |-> "eastus",
     githubToken |-> "ghp_token"]

\* Deploy is entered with a configuration whose containers the caller wrote.
InitTranslator ==
    /\ world = [found |-> "ok", event |-> TranslatorEvent, token |-> "ghp_token",
                descriptor |-> <<>>]
    /\ groups = [n \in RGNames |-> Absent]
    /\ pc = "ensureResourceGroup"
    /\ event = TranslatorEvent
    /\ cfg = TranslatorCfg
    /\ project = <<>>
    /\ containers \in ContainerLists
    /\ left = deployTimeout
    /\ retry = FreshRetry
    /\ calls = {}
    /\ envID = ""
    /\ fqdn = ""
    /\ deployErr = Nil
    /\ deploymentSucceeded = FALSE
    /\ cleanupErr = Nil
    /\ postErr = Nil
    /\ runErr = Nil
    /\ thread = <<>>
    /\ hist = NoHist

\* The steps of Deploy.
NextTranslator ==
    \/ EnsureResourceGroup
    \/ EnsureEnvironment
    \/ CreateContainerApp

SpecTranslator == InitTranslator /\ [][NextTranslator]_vars

(* ---------------------------------------------------------------------- *)
(* A deploy from the descriptor to the submitted application               *)
(* ---------------------------------------------------------------------- *)

\* A second service with an image and a published port, whose name sorts
\* before that of WebService.
AdminService ==
    [name |-> <<"a","d","m","i","n">>, image |-> "admin:1",
     ports |-> <<[published |-> "9090", target |-> 9090]>>]

\* Descriptors that list such services in either order.
OrderedDescriptors ==
    {d \in UNION {[1..n -> {WebService, AdminService, DbService}] : n \in 1..MaxServices} :
        \A i, j \in 1..Len(d) : i # j => d[i].name # d[j].name}

\* An "opened" event of octo/app #7 with every setting in place.
InitSubmission ==
    InitOf([found : {"ok"},
            event : {[action |-> "opened",
                      id |-> [owner |-> Octo, repo |-> <<"a","p","p">>, prNumber |-> 7]]},
            token : {"ghp_token"}, descriptor : OrderedDescriptors],
           {[n \in RGNames |-> Absent]})

\* run and deploy up to the submission of the application.
NextSubmission ==
    \/ Run
    \/ DeployPrepare
    \/ EnsureResourceGroup
    \/ EnsureEnvironment
    \/ CreateContainerApp

SpecSubmission == InitSubmission /\ [][NextSubmission]_vars

(* ---------------------------------------------------------------------- *)
(* The Status Reporter called run after run on one pull request            *)
(* ---------------------------------------------------------------------- *)

\* What another participant wrote on the pull request.
OtherComment(id) == [ID |-> id, Body |-> Str(<<"LGTM">>)]

\* The comments on the pull request before the first call: none, one fewer
\* than a page, a full page.
EarlierComments == {0, perPage - 1, perPage}

\* The deployments reported: one of a commit with a long hash and no
\* service listed, one of a commit with a short hash and two services.
ReportedInfos ==
    {[FQDN |-> "dd-pr7.eastus.azurecontainerapps.io", Services |-> <<>>,
      DeployTime |-> 42, CommitSHA |-> <<"a","b","c","1","2","3","4","5">>],
     [FQDN |-> "dd-pr7.eastus.azurecontainerapps.io",
      Services |-> <<[Name |-> <<"d","b">>, Ports |-> <<>>],
                     [Name |-> <<"w","e","b">>, Ports |-> <<8080, 9000>>]>>,
      DeployTime |-> 90, CommitSHA |-> <<"f","0","0">>]}

\* The pull request of octo/app #7 before the first run that reports on it,
\* its thread one of threads.
InitThread(threads) ==
    /\ world = [found |-> "ok", event |-> TranslatorEvent, token |-> "ghp_token",
                descriptor |-> <<>>]
    /\ groups = [n \in RGNames |-> Absent]
    /\ pc = "post"
    /\ event = TranslatorEvent
    /\ cfg = TranslatorCfg
    /\ project = <<>>
    /\ containers = <<>>
    /\ left = 0
    /\ retry = NoRetry
    /\ calls = {}
    /\ envID = ""
    /\ fqdn = ""
    /\ deployErr = Nil
    /\ deploymentSucceeded = FALSE
    /\ cleanupErr = Nil
    /\ postErr = Nil
    /\ runErr = Nil
    /\ thread \in threads
    /\ hist = NoHist

InitReporter == InitThread({[i \in 1..n |-> OtherComment(i)] : n \in EarlierComments})

\* The positions of the comments that carry the marker.
MarkerComments(t) == {i \in 1..Len(t) : HasMarker(t[i].Body)}

\* One call of the Status Reporter has returned post.
Posted(post) ==
    /\ thread' = post.thread
    /\ postErr' = post.err
    /\ hist' = [hist EXCEPT
                   !.posts = @ + 1,
                   !.postFailed = @ \/ post.err # Nil,
                   !.createdBeside = @ \/ (post.created /\ MarkerComments(thread) # {})]
    /\ UNCHANGED <<world, pc, event, cfg, project, containers, groups, left, retry,
                   calls, envID, fqdn, deployErr, deploymentSucceeded, cleanupErr, runErr>>

\* A deploy run reports its endpoint.
CallPostDeployment ==
    /\ pc = "post"
    /\ hist.posts < MaxPosts
    /\ \E info \in ReportedInfos, fault \in PostFaults :
           Posted(PostDeployment(thread, info, fault))

\* A teardown run reports the removal.
CallPostTeardown ==
    /\ pc = "post"
    /\ hist.posts < MaxPosts
    /\ \E fault \in PostFaults : Posted(PostTeardown(thread, fault))

NextReporter ==
    \/ CallPostDeployment
    \/ CallPostTeardown

SpecReporter == InitReporter /\ [][NextReporter]_vars

(* ---------------------------------------------------------------------- *)
(* Teardown of a pull request whose status comment exists already          *)
(* ---------------------------------------------------------------------- *)

\* The existing body of TestFormatTeardownFromExisting: the marker, a status
\* table with a "Ready" row and a "[Visit]" link, the footer, no final "\n".
TestedBody ==
    << <<commentMarker>>,
       <<"| Name | Status | Preview | Updated |">>,
       <<"|------|--------|---------|--------|">>,
       <<"| **abc1234** | ", "Ready", " | ", "[Visit]", "(http://test.io) | 30s ago |">>,
       <<>>,
       <<"---">>,
       PoweredBy >>

\* A body as the earlier formatDeploymentComment wrote it, with the footer
\* that tells the deploy time.
EarlierVersionBody ==
    Lines(<< <<commentMarker>>,
             <<"### ", PreviewReady>>,
             <<>>,
             <<"| Name | Link |">>,
             <<"|------|------|">>,
             <<"| **Preview** | ", VisitPreview, "(http://dd-pr7.eastus.azurecontainer.io) |">>,
             <<>>,
             <<"---">>,
             <<"*", "Deployed in", " 45s by [DraftDeploy](https://github.com/LoriKarikari/draftdeploy)*">> >>)

\* The body the first formatTeardownComment wrote.
FirstTeardownBody ==
    Lines(<< <<commentMarker>>,
             <<"## DraftDeploy Preview">>,
             <<>>,
             <<"Preview environment has been torn down.">> >>)

ExistingBodies == {TestedBody, EarlierVersionBody, FirstTeardownBody}

\* The thread holds no comment, or one status comment written before.
InitComments ==
    InitThread({<<>>} \cup {<<[ID |-> 1, Body |-> b]>> : b \in ExistingBodies})

SpecComments == InitComments /\ [][NextReporter]_vars

(* ---------------------------------------------------------------------- *)
(* The classification of the provider's errors                             *)
(* ---------------------------------------------------------------------- *)

\* The text of an error of the provider: the pieces of its code, then, when a
\* message follows, the piece ": " and the pieces of the message. Here: each
\* code of the denylist alone; two other codes alone; a code that begins with
\* a code of the denylist (InvalidResourceGroupLocation); a code not on the
\* list whose message names one that is.
ProviderErrors ==
    {<<c>> : c \in permanentErrors}
    \cup {<<"TooManyRequests">>, <<"Conflict">>,
          <<"InvalidResourceGroup", "Location">>,
          <<"TooManyRequests", ": ", "retry the request rejected as ", "InvalidParameter">>}

\* An "opened" event of octo/app #7 with every setting in place, the resource
\* group not there yet or holding an earlier preview.
InitClassifier ==
    InitOf([found : {"ok"},
            event : {[action |-> "opened",
                      id |-> [owner |-> Octo, repo |-> <<"a","p","p">>, prNumber |-> 7]]},
            token : {"ghp_token"}, descriptor : {<<WebService>>}],
           [RGNames -> {Absent, Preview}])

\* run and deploy through the first step of Deploy, and the rollback when
\* that step fails.
NextClassifier ==
    \/ Run
    \/ DeployPrepare
    \/ EnsureResourceGroupOn(ProviderErrors)
    \/ Rollback

SpecClassifier == InitClassifier /\ [][NextClassifier]_vars

(* ---------------------------------------------------------------------- *)
(* One run of the process after another on the same subscription           *)
(* ---------------------------------------------------------------------- *)

\* Two pull requests of octo/app.
PullRequests == {[owner |-> Octo, repo |-> <<"a","p","p">>, prNumber |-> n] : n \in {7, 8}}

NameOf(id) == sanitizeResourceGroupName(id.owner, id.repo, id.prNumber).name

PullRequest(n) == [owner |-> Octo, repo |-> <<"a","p","p">>, prNumber |-> n]

\* The events of two runs: #7 is opened and gets a new commit; #7 is opened
\* and closed; #8 is opened and #7 is closed.
Lifecycles ==
    {<<[action |-> "opened", id |-> PullRequest(7)],
       [action |-> "synchronize", id |-> PullRequest(7)]>>,
     <<[action |-> "opened", id |-> PullRequest(7)],
       [action |-> "closed", id |-> PullRequest(7)]>>,
     <<[action |-> "opened", id |-> PullRequest(8)],
       [action |-> "closed", id |-> PullRequest(7)]>>}

\* The first process starts; the subscription holds no resource group yet,
\* and no token is set, so nothing is reported.
InitLifecycle ==
    InitOf({[found |-> "ok", event |-> s[1], token |-> "", descriptor |-> <<WebService>>,
             later |-> Tail(s)] : s \in Lifecycles},
           {[n \in {NameOf(id) : id \in PullRequests} |-> Absent]})

\* main has returned and the workflow starts the process again for the next
\* event: nothing of the run is kept but what the provider and the pull
\* request hold. What the run derived and did is noted for the properties.
Restart ==
    /\ pc = "done"
    /\ world.later # <<>>
    /\ world' = [world EXCEPT !.event = Head(world.later), !.later = Tail(world.later)]
    /\ pc' = "start"
    /\ event' = NoEvent
    /\ cfg' = NoCfg
    /\ project' = <<>>
    /\ containers' = <<>>
    /\ left' = 0
    /\ retry' = NoRetry
    /\ calls' = {}
    /\ envID' = ""
    /\ fqdn' = ""
    /\ deployErr' = Nil
    /\ deploymentSucceeded' = FALSE
    /\ cleanupErr' = Nil
    /\ postErr' = Nil
    /\ runErr' = Nil
    /\ hist' = [NoHist EXCEPT
                   !.earlier = Append(hist.earlier,
                                      [id |-> event.id, action |-> event.action,
                                       resourceGroup |-> cfg.resourceGroup,
                                       ok |-> runErr = Nil, groups |-> groups])]
    /\ UNCHANGED <<groups, thread>>

NextLifecycle ==
    \/ Run
    \/ DeployPrepare
    \/ EnsureResourceGroup
    \/ EnsureEnvironment
    \/ CreateContainerApp
    \/ Report
    \/ Rollback
    \/ TeardownPrepare
    \/ TeardownDelete
    \/ TeardownReport
    \/ Restart

SpecLifecycle == InitLifecycle /\ [][NextLifecycle]_vars

(* ---------------------------------------------------------------------- *)
(* A status comment that has seen many deployments                         *)
(* ---------------------------------------------------------------------- *)

\* The k-th deployment reported on the pull request, its commit named k.
EarlierInfo(k) ==
    [FQDN |-> "dd-pr7.eastus.azurecontainerapps.io", Services |-> <<>>,
     DeployTime |-> 30 + k, CommitSHA |-> Itoa(k)]

\* The body of the status comment after the first k deployments.
RECURSIVE BodyAfter(_)
BodyAfter(k) ==
    IF k = 0 THEN NoText ELSE formatDeploymentComment(EarlierInfo(k), BodyAfter(k - 1))

\* The thread holds no comment, or the status comment of 8, 9 or 10 earlier
\* deployments.
InitHistory ==
    InitThread({<<>>} \cup {<<[ID |-> 1, Body |-> BodyAfter(k)]>> : k \in {8, 9, 10}})

SpecHistory == InitHistory /\ [][NextReporter]_vars

(* ---------------------------------------------------------------------- *)
(* A run for each action of a pull_request event                           *)
(* ---------------------------------------------------------------------- *)

\* Every action, with the token set and a descriptor of one service.
InitEvents == InitWith(Actions, {"ghp_token"}, {<<WebService>>})

SpecEvents == InitEvents /\ [][Next]_vars

(* ---------------------------------------------------------------------- *)
(* A run that is not stopped from outside                                  *)
(* ---------------------------------------------------------------------- *)

\* The process is one sequential thread and every call it makes returns: a
\* local call at once, a remote call with the provider's answer or, at the
\* latest, when the deadline of its context passes. So a run that can take a
\* step takes one.
SpecTermination == InitEvents /\ [][Next]_vars /\ WF_vars(Next)

(* ---------------------------------------------------------------------- *)
(* Properties                                                              *)
(* ---------------------------------------------------------------------- *)

Done == pc = "done"

\* The provider's state of the resource group of this run.
Group == groups[cfg.resourceGroup]

RollbackIssued == Call("delete", cfg) \in calls

\* err is, or wraps, the error of an expired context.
TimedOut(err) == err # Nil /\ err[Len(err)] = ctxErr[1]

NameTooLong == <<"invalid resource group name:", "resource group name too long">>

NoDeployable == <<"no deployable services found">>

\* C1, as claimed: a deploy run that ends in failure after the resource group
\* was created leaves neither the group nor anything inside it.
C1_NoOrphanAfterFailure ==
    (Done /\ runErr # Nil /\ hist.created) => Group = Absent

\* C1, amended: a deploy run that ends in failure after the resource group was
\* created has issued the rollback delete, and when that delete did not fail
\* the group and everything inside it are gone.
C1_NoOrphanUnlessRollbackFails ==
    (Done /\ runErr # Nil /\ hist.created) =>
        (RollbackIssued /\ (cleanupErr = Nil => Group = Absent))

\* C1: a failed run whose rollback removed a group that held an environment.
C1_Witness ==
    /\ Done /\ runErr # Nil /\ hist.created /\ hist.failedStep = 4
    /\ cleanupErr = Nil /\ RollbackIssued /\ Group = Absent

\* C2: when Deploy fails in one of its steps 2 to 5, deploy has issued a delete
\* of the resource group cfg.resourceGroup by the time it has returned.
C2_RollbackOnLaterSteps ==
    (Done /\ hist.failedStep \in 2..5) => RollbackIssued

\* C2: Deploy failed at the endpoint extraction and the delete was issued.
C2_Witness == Done /\ hist.failedStep = 5 /\ RollbackIssued

\* C3: after a failed Deploy, deploy returns the wrapped error of Deploy,
\* whether the rollback delete succeeded or failed.
C3_OriginalErrorReturned ==
    (Done /\ deployErr # Nil) => runErr = Wrap("failed to deploy:", deployErr)

\* C3: the rollback failed too, and the run still returns Deploy's error.
C3_Witness ==
    /\ Done /\ deployErr # Nil /\ cleanupErr # Nil /\ cleanupErr # deployErr
    /\ runErr = Wrap("failed to deploy:", deployErr)

\* C4, as claimed: when step 1 of Deploy fails, no delete of the resource group
\* is issued in that run.
C4_NoCleanupAfterStepOne == hist.failedStep = 1 => ~Called("delete")

\* C5, as claimed: a Deploy that fails because the deploy deadline was exceeded
\* triggers no rollback delete.
C5_TimeoutTriggersNoRollback ==
    (Done /\ hist.expired) => ~Called("delete")

\* C5, amended: no step of Deploy goes on once the deploy deadline has passed;
\* the timeout is what deploy returns, and like every failure of Deploy it
\* triggers the rollback delete.
C5_TimeoutSurfacedAndRolledBack ==
    /\ pc \in DeploySteps => left > 0
    /\ hist.expired => TimedOut(deployErr)
    /\ (Done /\ hist.expired) =>
           (runErr = Wrap("failed to deploy:", deployErr) /\ RollbackIssued)

\* C5: the deadline expired during Deploy and the run has ended.
C5_Witness == Done /\ hist.expired /\ TimedOut(runErr) /\ RollbackIssued

\* C6: when Deploy returned an endpoint, the deployment is marked succeeded and
\* no delete of the resource group is issued in the run.
C6_SuccessSuppressesRollback ==
    /\ fqdn # "" => ~Called("delete")
    /\ (Done /\ fqdn # "") => deploymentSucceeded

\* C6: a successful deploy has ended with the application in its group.
C6_Witness ==
    Done /\ fqdn # "" /\ deploymentSucceeded /\ Group.state = "present" /\ Group.app # <<>>

\* C7: a failure of the Status Reporter changes no outcome: the run returns
\* success, and a deploy is marked succeeded and issues no rollback.
C7_ReporterFailureNotFatal ==
    (Done /\ postErr # Nil) =>
        /\ runErr = Nil
        /\ fqdn # "" => (deploymentSucceeded /\ ~Called("delete"))

\* C7: a deploy whose comment could not be posted has ended in success.
C7_Witness == Done /\ postErr # Nil /\ fqdn # "" /\ runErr = Nil

\* C8: a run that ends with the name-too-long error or the no-deployable-services
\* error has made no remote call.
C8_ValidationBeforeRemoteCalls ==
    (Done /\ runErr \in {NameTooLong, NoDeployable}) => calls = {}

\* C8: a descriptor of build-only services was rejected.
C8_Witness ==
    /\ Done /\ runErr = NoDeployable /\ calls = {}
    /\ \A s \in Services(project) : s.image = ""

\* Where a name stands in a sequence of names.
IndexOf(seq, x) == CHOOSE i \in 1..Len(seq) : seq[i] = x

\* The containers are the declared services with an image, each once, name and
\* image unchanged, in the order GetServiceNames lists them.
ExactlyTheImages(d, cs) ==
    /\ \A s \in Services(d) :
           s.image # "" <=>
               \E i \in 1..Len(cs) : cs[i].Name = s.name /\ cs[i].Image = s.image
    /\ \A i \in 1..Len(cs) : \E s \in Services(d) : s.name = cs[i].Name
    /\ \A i, j \in 1..Len(cs) :
           i < j => IndexOf(GetServiceNames(d), cs[i].Name)
                        < IndexOf(GetServiceNames(d), cs[j].Name)

\* C9: every application submitted holds exactly the declared services with an
\* image, in the descriptor source's order, and a descriptor with at least one
\* such service is not rejected as empty.
C9_OnlyImagesSubmitted ==
    /\ \A app \in hist.submitted : ExactlyTheImages(world.descriptor, app.Containers)
    /\ runErr = NoDeployable => \A s \in Services(world.descriptor) : s.image = ""

\* C9: an application was submitted for a descriptor with a build-only service.
C9_Witness ==
    /\ hist.submitted # {}
    /\ \E s \in Services(world.descriptor) : s.image = ""
    /\ \E s \in Services(world.descriptor) : s.image # ""

\* C10, as claimed: once an invocation of a retried operation was answered with a
\* permanent error, by the initiating call or by the poll, the operation is not
\* invoked again.
C10_PermanentNeverRetried == ~hist.retriedAfterPermanent

\* The invocations of the retry before its last all failed with a transient
\* error of the provider.
EarlierTransient(f) == ~f.earlier.permanent /\ ~f.earlier.succeeded

\* The invocations of the retry f all failed with a transient error.
AllTransient(f) == EarlierTransient(f) /\ f.res.fault = "transient"

\* The invocations of the retry f are one or more transient failures and then
\* a success.
TransientThenOk(f) == f.invoked >= 2 /\ EarlierTransient(f) /\ f.res.fault = "none"

\* C11: a retry whose invocations were k >= 1 transient failures and then a
\* success returns nil, those k+1 invocations being all it made; no operation is
\* invoked again in a retry after it succeeded, nor is the resource group ensured
\* again after its retry returned; and after such a retry of the creation the one
\* group of that name is present.
C11_IdempotentRetry ==
    /\ TransientThenOk(hist.finished) =>
           (hist.finished.kind = "ok" /\ hist.finished.returned = "nil")
    /\ ~retry.succeeded
    /\ "create" \in hist.succeeded => pc # "ensureResourceGroup"
    /\ (hist.finished.op = "create" /\ TransientThenOk(hist.finished)) =>
           (Group.state = "present" /\ hist.created)

\* C11: the creation of the resource group failed transiently, then succeeded.
C11_Witness ==
    /\ hist.finished.op = "create" /\ hist.finished.kind = "ok"
    /\ TransientThenOk(hist.finished)
    /\ Group.state = "present"

\* C12, as claimed: a retry whose invocations all failed transiently stops only
\* once the elapsed time, with the next interval, exceeds the budget, and it
\* returns the error of the last invocation.
C12_StopsOnlyAtBudget ==
    (hist.finished.kind = "fail" /\ AllTransient(hist.finished)) =>
        (hist.finished.overBudget /\ hist.finished.returned = "last")

\* C12, amended: a retry whose invocations all failed transiently stops when
\* the next interval would take the elapsed time past the budget, and then
\* returns the error of the last invocation, or when the context would end
\* before the next interval has passed, and then returns the context's error.
C12_StopsAtBudgetOrDeadline ==
    (hist.finished.kind = "fail" /\ AllTransient(hist.finished)) =>
        IF hist.finished.overBudget
        THEN hist.finished.returned = "last"
        ELSE hist.finished.returned = "ctx" /\ hist.finished.pastDeadline

\* C12: a retry went round again and then ran out of its budget.
C12_Witness ==
    /\ hist.finished.kind = "fail" /\ AllTransient(hist.finished)
    /\ hist.finished.invoked >= 2
    /\ hist.finished.overBudget /\ hist.finished.returned = "last"

\* The steps that invoke the delete of the resource group.
DeleteSteps == {"rollback", "teardownDelete"}

\* C13, as claimed: the creation of the resource group is retried for at most
\* about 2 minutes, the creation of the hosting environment for at most about
\* 10, and the delete of a teardown for at most about 5.
C13_BudgetByCallSite ==
    /\ pc = "ensureResourceGroup" => retry.elapsed <= 2
    /\ pc = "ensureEnvironment" => retry.elapsed <= 10
    /\ pc = "teardownDelete" => retry.elapsed <= 5

\* C13, amended: every call site retries under the one budget maxRetryTime: no
\* retry goes round again past it, and none gives up on a transient error
\* before the next interval would pass it; the deletes of teardown and rollback
\* end earlier only with their contexts.
C13_OneBudgetEverywhere ==
    /\ retry.elapsed <= maxRetryTime
    /\ (hist.finished.kind = "fail" /\ hist.finished.returned = "last"
           /\ hist.finished.res.fault = "transient") =>
           hist.finished.overBudget
    /\ pc = "teardownDelete" => retry.elapsed < teardownTimeout
    /\ pc = "rollback" => retry.elapsed < cleanupTimeout

\* C13: the creation of the resource group is still retried after 2 minutes.
C13_Witness == pc = "ensureResourceGroup" /\ retry.elapsed > 2 /\ retry.attempts > 0

\* C14, as claimed: one call of DeleteResourceGroup initiates at most one delete:
\* after an invocation whose BeginDelete was accepted, no later invocation of
\* that call has a BeginDelete accepted.
C14_NoSecondInitiation == ~hist.reinitiated

\* C15: DeleteResourceGroup returns nil only from an invocation whose poll
\* finished, and then the group with everything inside it is gone; teardown
\* reports and returns success only then, and it has made no other call to the
\* provider than the delete of the group.
C15_SuccessOnlyAfterDeleteCompleted ==
    /\ (hist.finished.op = "delete" /\ hist.finished.kind = "ok") =>
           /\ hist.finished.res = [phase |-> "poll", fault |-> "none"]
           /\ Group = Absent
    /\ pc = "teardownReport" => Group = Absent
    /\ (Done /\ event.action = "closed" /\ runErr = Nil) =>
           /\ Group = Absent
           /\ "delete" \in hist.succeeded
           /\ calls \subseteq {Call("delete", cfg), Call("post", cfg)}

\* C15: a teardown has ended in success after its delete was retried.
C15_Witness ==
    /\ Done /\ event.action = "closed" /\ runErr = Nil
    /\ Group = Absent /\ hist.deleteCalls = 1 /\ hist.finished.invoked >= 2

\* The submission of the application was answered with a permanent error.
SubmissionRefused ==
    hist.failedStep = 4 /\ hist.cause.phase = "begin" /\ isPermanentError(hist.cause.ans)

\* C16: when the submission of the application is answered with a permanent
\* error, deploy calls DeleteResourceGroup exactly once, on cfg.resourceGroup,
\* and returns that error of the provider, wrapped, whatever the rollback did.
C16_PermanentSubmissionError ==
    (Done /\ SubmissionRefused) =>
        /\ hist.deleteCalls = 1
        /\ RollbackIssued
        /\ runErr = Wrap("failed to deploy:", hist.cause.ans)

\* C16: the submission was refused and the rollback failed as well.
C16_Witness ==
    /\ Done /\ SubmissionRefused /\ hist.cause.ans = <<"AuthorizationFailed">>
    /\ hist.deleteCalls = 1 /\ cleanupErr # Nil

\* C17: the hosting environment is requested only after the retry of the
\* resource group returned nil, and the application is submitted only after the
\* retry of the environment returned nil from an invocation whose poll
\* finished and gave an identifier; every application submitted carries the
\* identifier ensureEnvironment returned.
C17_StepsInOrder ==
    /\ Called("env") => "create" \in hist.succeeded
    /\ Called("app") => ({"create", "env"} \subseteq hist.succeeded /\ envID \in EnvIDs)
    /\ envID # "" <=> "env" \in hist.succeeded
    /\ (hist.finished.op = "env" /\ hist.finished.kind = "ok") =>
           /\ hist.finished.res = [phase |-> "poll", fault |-> "none"]
           /\ pc = "createContainerApp" /\ ~Called("app") /\ Group.env
    /\ \A app \in hist.submitted : app.ManagedEnvironmentID = envID

\* C17: an application was submitted with the identifier of its environment.
C17_Witness ==
    /\ hist.submitted # {} /\ Called("app")
    /\ envID = "/resourceGroups/b/managedEnvironments/dd-pr7-env"
    /\ \E app \in hist.submitted : app.ManagedEnvironmentID = envID

\* The pointer to the domain name in an application resource, <<>> when a
\* pointer on the way to it is nil.
FqdnOf(r) ==
    IF r.Properties = <<>> THEN <<>>
    ELSE IF r.Properties[1].Configuration = <<>> THEN <<>>
    ELSE IF r.Properties[1].Configuration[1].Ingress = <<>> THEN <<>>
    ELSE r.Properties[1].Configuration[1].Ingress[1].Fqdn

\* C18: Deploy returns an endpoint only when the three retried operations
\* returned nil and the resource the poll returned holds that name, and with
\* an error it returns the empty endpoint.
C18_EndpointOnlyOnFullSuccess ==
    /\ fqdn # "" =>
           /\ {"create", "env", "app"} \subseteq hist.succeeded
           /\ deployErr = Nil /\ hist.failedStep = 0
           /\ hist.result # <<>> /\ FqdnOf(hist.result[1]) = <<fqdn>>
    /\ deployErr # Nil => fqdn = ""

\* C18: Deploy failed at the extraction of the endpoint and returned none.
C18_Witness ==
    /\ hist.failedStep = 5 /\ deployErr # Nil /\ fqdn = ""
    /\ {"create", "env", "app"} \subseteq hist.succeeded

\* The errors extractFQDN returns for the application resources.
ExtractionErrors == {extractFQDN(r).err : r \in AppResults} \ {Nil}

\* C19, as claimed: the extraction of the endpoint fails with one of exactly
\* three errors.
C19_ThreeConditions ==
    hist.failedStep = 5 =>
        (Cardinality(ExtractionErrors) = 3 /\ deployErr \in ExtractionErrors)

\* C19, amended: the extraction of the endpoint fails with one of exactly four
\* errors, one for each pointer that may be nil on the way to the name
\* (properties, configuration, ingress, FQDN), and returns the name only when
\* none of them is nil.
C19_FourConditions ==
    /\ Cardinality(ExtractionErrors) = 4
    /\ \A r1, r2 \in AppResults :
           (FqdnOf(r1) = <<>> /\ FqdnOf(r2) = <<>> /\ r1 # r2) =>
               extractFQDN(r1).err # extractFQDN(r2).err
    /\ hist.result # <<>> =>
           IF FqdnOf(hist.result[1]) # <<>>
           THEN fqdn = FqdnOf(hist.result[1])[1] /\ deployErr = Nil
           ELSE /\ hist.failedStep = 5 /\ fqdn = ""
                /\ deployErr \in ExtractionErrors

\* C19: the extraction failed on a resource without a configuration.
C19_Witness ==
    /\ hist.failedStep = 5
    /\ hist.result = <<[Properties |-> <<[Configuration |-> <<>>]>>]>>
    /\ deployErr = <<"container app has no configuration">>

DigitValue(c) == (CHOOSE i \in 1..Len(Digits) : Digits[i] = c) - 1

\* The number a sequence of decimal digits denotes.
RECURSIVE Atoi(_)
Atoi(s) ==
    IF s = <<>> THEN 0
    ELSE 10 * Atoi(SubSeq(s, 1, Len(s) - 1)) + DigitValue(s[Len(s)])

\* name is part, character by character, from position at + 1 on, with every
\* character outside allowed replaced by a hyphen.
HoldsSanitized(name, at, part, allowed) ==
    \A i \in 1..Len(part) :
        name[at + i] = IF part[i] \in allowed THEN part[i] ELSE "-"

\* name is "draftdeploy-" + sanitized owner + "-" + sanitized repo + "-pr" + N.
IsResourceGroupName(name, id) ==
    LET o == Len(Prefix)
        r == o + Len(id.owner) + 1
        n == r + Len(id.repo) + 3
    IN  /\ Len(name) > n
        /\ SubSeq(name, 1, o) = Prefix
        /\ HoldsSanitized(name, o, id.owner, RGAllowed)
        /\ name[r] = "-"
        /\ HoldsSanitized(name, r, id.repo, RGAllowed)
        /\ SubSeq(name, n - 2, n) = <<"-", "p", "r">>
        /\ \A i \in (n + 1)..Len(name) : name[i] \in Range(Digits)
        /\ name[n + 1] # "0"
        /\ Atoi(SubSeq(name, n + 1, Len(name))) = id.prNumber

\* The decimal digits of a number.
RECURSIVE DigitCount(_)
DigitCount(n) == IF n < 10 THEN 1 ELSE 1 + DigitCount(n \div 10)

\* The length of "draftdeploy-<owner>-<repo>-pr<N>" for identity id.
NameLen(id) ==
    Len(Prefix) + Len(id.owner) + 1 + Len(id.repo) + 3 + DigitCount(id.prNumber)

\* C20: once run has derived the names of an event, the resource group name
\* is the prefix, the sanitized owner, a hyphen, the sanitized repository name
\* and "-pr" with the number, whole and never longer than 90 characters; when
\* that string would be longer, run has failed with the name-too-long error and
\* has no name.
C20_ResourceGroupName ==
    pc # "start" =>
        IF runErr = Nil
        THEN /\ IsResourceGroupName(cfg.resourceGroup, world.event.id)
             /\ Len(cfg.resourceGroup) <= MaxResourceGroupLen
        ELSE /\ runErr = NameTooLong
             /\ cfg = NoCfg
             /\ NameLen(world.event.id) > MaxResourceGroupLen

\* C20: a character outside the class was replaced in the owner.
C20_Witness ==
    /\ pc # "start" /\ runErr = Nil
    /\ \E i \in 1..Len(world.event.id.owner) :
           /\ world.event.id.owner[i] \notin RGAllowed
           /\ cfg.resourceGroup[Len(Prefix) + i] = "-"

\* The error of run when sanitizeDNSLabel fails.
LabelTooShort == <<"invalid DNS label:", "DNS label too short">>

\* The lower-case letter of an upper-case one, every other character itself.
Lowered(c) ==
    IF c \in Range(Upper)
    THEN Lower[CHOOSE i \in 1..Len(Upper) : Upper[i] = c]
    ELSE c

\* name is part, character by character, from position at + 1 on, lowered and
\* with every character outside [a-z0-9-] replaced by a hyphen.
HoldsLowered(name, at, part) ==
    \A i \in 1..Len(part) :
        name[at + i] = IF Lowered(part[i]) \in DNSAllowed
                       THEN Lowered(part[i]) ELSE "-"

\* The length of "dd-<owner>-<repo>-pr<N>" for identity id; the string begins
\* with a letter and ends with a digit, so trimming hyphens removes nothing.
LabelLen(id) ==
    3 + Len(id.owner) + 1 + Len(id.repo) + 3 + DigitCount(id.prNumber)

\* name is front + "pr" + N.
EndsWithNumber(name, front, n) ==
    /\ Len(name) > Len(front) + 2
    /\ SubSeq(name, 1, Len(front) + 2) = front \o <<"p", "r">>
    /\ \A i \in (Len(front) + 3)..Len(name) : name[i] \in Range(Digits)
    /\ Atoi(SubSeq(name, Len(front) + 3, Len(name))) = n

\* name is "dd-" + lowered sanitized owner + "-" + lowered sanitized repo +
\* "-pr" + N.
IsDNSLabel(name, id) ==
    LET r == 3 + Len(id.owner) + 1
        n == r + Len(id.repo) + 1
    IN  /\ Len(name) = LabelLen(id)
        /\ SubSeq(name, 1, 3) = <<"d", "d", "-">>
        /\ HoldsLowered(name, 3, id.owner)
        /\ name[r] = "-"
        /\ HoldsLowered(name, r, id.repo)
        /\ name[n] = "-"
        /\ EndsWithNumber(SubSeq(name, n + 1, Len(name)), <<>>, id.prNumber)

\* A DNS label: 3 to 63 characters of [a-z0-9-], no hyphen at either end.
WellFormedLabel(name) ==
    /\ Len(name) \in MinDNSLabelLen..MaxDNSLabelLen
    /\ \A i \in 1..Len(name) : name[i] \in DNSAllowed
    /\ name[1] # "-"
    /\ name[Len(name)] # "-"

\* C21: once run has derived the names of an event, the DNS label is
\* "dd-<owner>-<repo>-pr<N>" with owner and repository name lowered and every
\* character outside [a-z0-9-] replaced by a hyphen, or "dd-pr<N>" when that
\* string has more than 63 characters; run fails with the too-short error
\* exactly when the string has fewer than 3 characters; and every label
\* returned has 3 to 63 characters of [a-z0-9-] with no hyphen at either end.
C21_DNSLabel ==
    pc # "start" =>
        /\ runErr = LabelTooShort <=>
               /\ NameLen(world.event.id) <= MaxResourceGroupLen
               /\ LabelLen(world.event.id) < MinDNSLabelLen
        /\ runErr = Nil =>
               /\ IF LabelLen(world.event.id) <= MaxDNSLabelLen
                  THEN IsDNSLabel(cfg.dnsLabel, world.event.id)
                  ELSE EndsWithNumber(cfg.dnsLabel, <<"d", "d", "-">>,
                                      world.event.id.prNumber)
               /\ WellFormedLabel(cfg.dnsLabel)

\* C21: a label of more than 63 characters was replaced by the short form.
C21_Witness ==
    /\ pc # "start" /\ runErr = Nil
    /\ LabelLen(world.event.id) > MaxDNSLabelLen
    /\ cfg.dnsLabel = <<"d", "d", "-", "p", "r">> \o Itoa(world.event.id.prNumber)

\* The identity of another pull request of the same repository.
OtherNumber(id, n) == [id EXCEPT !.prNumber = n]

\* C22: once run has derived the names of an event, no other pull-request
\* number of the same owner and repository is given the same resource group
\* name or the same DNS label.
C22_DistinctPerNumber ==
    pc # "start" /\ runErr = Nil =>
        \A n \in (1..MaxPRNumber) \ {world.event.id.prNumber} :
            LET id == OtherNumber(world.event.id, n)
                rg == sanitizeResourceGroupName(id.owner, id.repo, id.prNumber)
                dns == sanitizeDNSLabel(id.owner, id.repo, id.prNumber)
            IN  /\ rg.err = "nil" => rg.name # cfg.resourceGroup
                /\ dns.err = "nil" => dns.name # cfg.dnsLabel

\* C22: the label of this pull request is the short form while another number
\* of the same repository keeps the long one.
C22_Witness ==
    /\ pc # "start" /\ runErr = Nil
    /\ LabelLen(world.event.id) > MaxDNSLabelLen
    /\ \E n \in 1..MaxPRNumber :
           /\ LabelLen(OtherNumber(world.event.id, n)) <= MaxDNSLabelLen
           /\ NameLen(OtherNumber(world.event.id, n)) <= MaxResourceGroupLen

\* C23: once run has derived the resource group name it works on, no other
\* identity (owner, repository, number) is given the same name.
C23_PrivateNamespace ==
    pc # "start" /\ runErr = Nil =>
        \A id \in NamingIdentities \ {world.event.id} :
            LET rg == sanitizeResourceGroupName(id.owner, id.repo, id.prNumber)
            IN  rg.err = "nil" => rg.name # cfg.resourceGroup

\* The containers of the applications submitted so far, each beside the
\* container configuration it was translated from.
Translated ==
    {[from |-> containers[i], to |-> app.Containers[i]] :
        app \in hist.submitted, i \in 1..Len(containers)}

\* C24: in every submitted application the environment list of a container
\* holds each key of the container's mapping exactly once with its value, in
\* ascending key order, and is absent when the mapping is empty.
C24_EnvVarsSortedByKey ==
    \A t \in Translated :
        LET env == t.from.Environment
            list == t.to.Env
        IN  /\ Len(list) = Cardinality(env)
            /\ \A kv \in env :
                   \E i \in 1..Len(list) :
                       /\ list[i] = [Name |-> kv[1], Value |-> kv[2]]
                       /\ \A j \in 1..Len(list) : list[j].Name = kv[1] => j = i
            /\ \A i, j \in 1..Len(list) : i < j => StrLess(list[i].Name, list[j].Name)
            /\ env = {} => list = <<>>

\* C24: an application was submitted with one container of three variables
\* and one container of none.
C24_Witness ==
    \E t, u \in Translated :
        /\ Len(t.to.Env) = 3
        /\ u.from.Environment = {} /\ u.to.Env = <<>>

\* The CPU or memory a container asks for: the default when the field is zero.
Requested(value, default) == IF value = 0 THEN default ELSE value

\* C25 as claimed: every translated container requests the default CPU and
\* memory where the configuration has zero, and the configured value,
\* unchanged, where it has another.
C25_ZeroDefaultsElseUnchanged ==
    \A t \in Translated :
        /\ t.to.CPU = Requested(t.from.CPU, DefaultCPU)
        /\ t.to.MemoryGi * 100 = Requested(t.from.MemoryGB, DefaultMemoryGB)

\* C25: every translated container requests the default CPU and memory where
\* the configuration has zero; another CPU is passed unchanged, another
\* memory as the tenth of a GB nearest to it.
C25_ZeroDefaultsElseRounded ==
    \A t \in Translated :
        LET mem == Requested(t.from.MemoryGB, DefaultMemoryGB)
        IN  /\ t.to.CPU = Requested(t.from.CPU, DefaultCPU)
            /\ t.to.MemoryGi * 100 - mem \in -50..50

\* C25: an application was submitted with a container of zero CPU and zero
\* memory and one whose memory is no whole tenth.
C25_Witness ==
    \E t, u \in Translated :
        /\ t.from.CPU = 0 /\ t.to.CPU = DefaultCPU
        /\ t.from.MemoryGB = 0 /\ t.to.MemoryGi * 100 = DefaultMemoryGB
        /\ u.from.MemoryGB % 100 # 0 /\ u.to.MemoryGi * 100 # u.from.MemoryGB

\* The positions of the containers that declare a port.
WithPorts == {i \in 1..Len(containers) : containers[i].Ports # <<>>}

\* C26: every submitted application has external ingress whose target is the
\* first port of the first container, in the order of the configuration, that
\* declares one, and 80 when no container declares a port.
C26_IngressFirstDeclaredPort ==
    \A app \in hist.submitted :
        /\ app.Ingress.External
        /\ IF WithPorts = {}
           THEN app.Ingress.TargetPort = DefaultIngressPort
           ELSE \E i \in WithPorts :
                    /\ \A j \in WithPorts : i <= j
                    /\ app.Ingress.TargetPort = containers[i].Ports[1]

\* C26: an application was submitted whose first container declares no port
\* and whose second declares one.
C26_Witness ==
    /\ hist.submitted # {}
    /\ Len(containers) = 2
    /\ containers[1].Ports = <<>>
    /\ containers[2].Ports # <<>>

\* The services of the loaded descriptor that are deployed and publish a port.
Publishing == {s \in Services(project) : s.image # "" /\ ExposedOf(s.ports) # <<>>}

\* The position at which the descriptor declares a service.
DeclaredAt(s) == CHOOSE i \in 1..Len(project) : project[i] = s

\* C27 as claimed: the ingress target of every submitted application is the
\* first published port of the publishing service that the descriptor
\* declares first.
C27_IngressInDeclarationOrder ==
    \A app \in hist.submitted :
        \A s \in Publishing :
            (\A t \in Publishing : DeclaredAt(s) <= DeclaredAt(t))
                => app.Ingress.TargetPort = ExposedOf(s.ports)[1]

\* C27: the ingress target of every submitted application is the first
\* published port of the publishing service whose name is first in ascending
\* order, wherever the descriptor declares it.
C27_IngressInNameOrder ==
    \A app \in hist.submitted :
        \A s \in Publishing :
            (\A t \in Publishing \ {s} : StrLess(s.name, t.name))
                => app.Ingress.TargetPort = ExposedOf(s.ports)[1]

\* C27: an application was submitted from a descriptor that declares a
\* publishing service before another of a smaller name.
C27_Witness ==
    /\ hist.submitted # {}
    /\ \E s, t \in Publishing :
           /\ DeclaredAt(s) < DeclaredAt(t)
           /\ StrLess(t.name, s.name)

\* The ports a translated application names: the ingress target and whatever
\* ports its containers carry.
PortsOf(app) ==
    {app.Ingress.TargetPort}
    \cup UNION {IF "Ports" \in DOMAIN app.Containers[i]
                THEN Range(app.Containers[i].Ports) ELSE {} :
                    i \in 1..Len(app.Containers)}

\* The ports the containers of the configuration declare.
Declared == UNION {Range(containers[i].Ports) : i \in 1..Len(containers)}

\* C28 as claimed: every submitted application names every port that a
\* container of the configuration declares.
C28_EveryDeclaredPortExposed ==
    \A app \in hist.submitted : Declared \subseteq PortsOf(app)

\* C28: every submitted application names one port, its ingress target; no
\* other declared port appears in it.
C28_OnlyIngressTargetExposed ==
    \A app \in hist.submitted :
        /\ PortsOf(app) = {app.Ingress.TargetPort}
        /\ \A p \in Declared \ {app.Ingress.TargetPort} : p \notin PortsOf(app)

\* C28: an application was submitted from a configuration that declares three
\* ports.
C28_Witness ==
    /\ hist.submitted # {}
    /\ Cardinality(Declared) = 3

\* C29: on a pull request whose thread had no marker comment, once the Status
\* Reporter has been called and every call has succeeded, the thread holds
\* exactly one comment with the marker, and no call created a comment while
\* the thread held one.
C29_SingleMarkerComment ==
    hist.posts > 0 /\ ~hist.postFailed =>
        /\ Cardinality(MarkerComments(thread)) = 1
        /\ ~hist.createdBeside

\* Where a run is while it deploys, and while it tears down.
DeployFlow ==
    {"deploy", "ensureResourceGroup", "ensureEnvironment", "createContainerApp",
     "report", "rollback", "done"}

TeardownFlow == {"teardown", "teardownDelete", "teardownReport", "done"}

\* run has read the event and the settings, derived the names and reached
\* the switch on the action.
Dispatched == pc # "start" /\ world.found = "ok" /\ cfg # NoCfg

\* C30: a run that has reached the switch on the action deploys on opened,
\* synchronize and reopened (it is in the deploy flow, and when it is over it
\* has failed or has asked for the resource group), tears down on closed (it
\* is in the teardown flow, creates nothing, and when it is over it has failed
\* or has asked for the delete), and on any other action is over at once,
\* successfully, with no call to the provider and none to the pull request.
C30_ActionSelectsFlow ==
    Dispatched =>
        IF event.action \in {"opened", "synchronize", "reopened"}
        THEN /\ pc \in DeployFlow
             /\ pc = "done" => runErr # Nil \/ Called("create")
        ELSE IF event.action = "closed"
        THEN /\ pc \in TeardownFlow
             /\ ~Called("create") /\ ~Called("env") /\ ~Called("app")
             /\ pc = "done" => runErr # Nil \/ Called("delete")
        ELSE /\ pc = "done"
             /\ runErr = Nil
             /\ calls = {}
             /\ thread = <<>>

\* C30: a run on synchronize has submitted the application.
C30_Witness ==
    /\ Dispatched
    /\ event.action = "synchronize"
    /\ Called("app")

(* ---------------------------------------------------------------------- *)
(* The loaded descriptor and what the orchestrator reads from it           *)
(* ---------------------------------------------------------------------- *)

\* A service whose port entries sit on both sides of every check of
\* GetExposedPorts: published or not, target below, at and above the range.
EdgeService ==
    [name |-> <<"e","d","g","e">>, image |-> "edge:1",
     ports |-> <<[published |-> "443", target |-> 443],
                 [published |-> "", target |-> 80],
                 [published |-> "1", target |-> 0],
                 [published |-> "70000", target |-> MaxPort + 1],
                 [published |-> "65535", target |-> MaxPort],
                 [published |-> "81", target |-> 1]>>]

DescriptorPool == {ApiService, WebService, DbService, AdminService, EdgeService}

\* Descriptors over the pool, in every declaration order.
LoadedDescriptors ==
    {d \in UNION {[1..n -> DescriptorPool] : n \in 1..MaxServices} :
        \A i, j \in 1..Len(d) : i # j => d[i].name # d[j].name}

\* An "opened" event of octo/app #7 with every setting in place.
InitDescriptor ==
    InitOf([found : {"ok"},
            event : {[action |-> "opened",
                      id |-> [owner |-> Octo, repo |-> <<"a","p","p">>, prNumber |-> 7]]},
            token : {"ghp_token"}, descriptor : LoadedDescriptors],
           {[n \in RGNames |-> Absent]})

\* run and deploy up to the call of Deployer.Deploy.
NextDescriptor ==
    \/ Run
    \/ DeployPrepare

SpecDescriptor == InitDescriptor /\ [][NextDescriptor]_vars

\* The descriptor has been loaded and its services have been read.
Loaded == project # <<>> /\ pc # "deploy"

\* The names the loaded descriptor declares.
DeclaredNames == {project[i].name : i \in 1..Len(project)}

\* C31: GetServiceNames of the loaded descriptor holds every declared name
\* exactly once and nothing else, and each name is smaller, in string order,
\* than the one after it, whatever the order the descriptor declares them in.
C31_ServiceNamesSortedOnce ==
    Loaded =>
        LET names == GetServiceNames(project)
        IN  /\ Range(names) = DeclaredNames
            /\ \A n \in DeclaredNames :
                   Cardinality({i \in 1..Len(names) : names[i] = n}) = 1
            /\ \A i \in 1..Len(names) - 1 : StrLess(names[i], names[i + 1])

\* C31: a descriptor that declares web before admin has been loaded.
C31_Witness ==
    /\ Loaded
    /\ Len(project) >= 2
    /\ StrLess(project[2].name, project[1].name)
    /\ containers # <<>>

\* The port entry is one GetExposedPorts keeps.
KeptPort(port) == port.published # "" /\ port.target >= 1 /\ port.target <= 65535

\* The targets of the kept entries of ports, in the order of ports.
KeptTargets(ports) ==
    LET kept == SelectSeq(ports, KeptPort)
    IN  [i \in 1..Len(kept) |-> kept[i].target]

\* C36: for every service of the loaded descriptor GetExposedPorts is the
\* targets, in declaration order, of exactly the entries that have a published
\* port and a target in 1..65535, and for a name the descriptor does not
\* declare it is empty.
C36_ExposedPortsFiltered ==
    Loaded =>
        /\ \A i \in 1..Len(project) :
               GetExposedPorts(project, project[i].name) = KeptTargets(project[i].ports)
        /\ \A s \in DescriptorPool :
               s.name \notin DeclaredNames => GetExposedPorts(project, s.name) = <<>>

\* C36: the descriptor with the service of the boundary entries has been
\* loaded, and a service with a published port is not declared.
C36_Witness ==
    /\ Loaded
    /\ \E i \in 1..Len(project) : project[i] = EdgeService
    /\ ApiService.name \notin DeclaredNames
    /\ \E i \in 1..Len(containers) : containers[i].Ports = <<443, MaxPort, 1>>

\* strings.Contains(body, "Removed") and strings.Contains(body, "Powered by"):
\* the words stand in the removed heading and the removed link row, and in
\* the footer.
ShowsRemoved(body) ==
    \E i \in 1..Len(body) :
        Contains(body[i], PreviewRemoved) \/ Contains(body[i], "~~Removed~~")

HasFooter(body) == \E i \in 1..Len(body) : Contains(body[i], "Powered by")

\* C32: whatever body PostTeardown finds on the pull request, the empty body
\* when there is no status comment or the body of the comment that carries
\* the marker, formatTeardownFromExisting turns it into a body that carries
\* the marker, shows the removed status and has the footer.
C32_TeardownBodyShowsRemoved ==
    LET out == formatTeardownFromExisting(findExistingComment(thread).body)
    IN  /\ HasMarker(out)
        /\ ShowsRemoved(out)
        /\ HasFooter(out)

\* C33: the rollback delete runs under a deadline of its own of 2 minutes:
\* while it runs, the time left to it is those 2 minutes less the time its
\* retry has taken, whatever was left of the deadline of deploy, and is not
\* used up (once it is, the rollback has given up); and when Deploy failed
\* with its own deadline expired the rollback delete has still been called
\* by the time the run is over.
C33_RollbackOwnDeadline ==
    /\ pc = "rollback" =>
           /\ left = cleanupTimeout - retry.elapsed
           /\ left > 0
    /\ (Done /\ deployErr # Nil /\ hist.expired) =>
           /\ RollbackIssued
           /\ hist.deleteCalls = 1

\* C33: Deploy ran into its deadline, the rollback delete was called and
\* gave up at its own deadline, the group still there.
C33_Witness ==
    /\ Done /\ deployErr # Nil /\ hist.expired /\ TimedOut(deployErr)
    /\ RollbackIssued
    /\ TimedOut(cleanupErr)
    /\ hist.finished.op = "delete"
    /\ Group # Absent

\* The pieces of the symbolic code of an error of the provider: those before
\* the message.
CodeOf(err) ==
    LET seps == {i \in 1..Len(err) : err[i] = ": "}
        end == IF seps = {} THEN Len(err) + 1
               ELSE CHOOSE i \in seps : \A j \in seps : i <= j
    IN  SubSeq(err, 1, end - 1)

\* The code of the error is one of the four of the denylist.
Denylisted(err) ==
    CodeOf(err) \in {<<"InvalidParameter">>, <<"InvalidResourceGroup">>,
                     <<"AuthorizationFailed">>, <<"InvalidSubscriptionId">>}

\* The create of the resource group has just failed on an answer of the
\* provider, which the retry classified.
Classified ==
    /\ hist.finished.op = "create"
    /\ hist.finished.kind = "fail"
    /\ hist.finished.res.fault \in {"permanent", "transient"}

\* C34: an error of the provider is classified permanent exactly when its
\* code is one of InvalidParameter, InvalidResourceGroup, AuthorizationFailed
\* and InvalidSubscriptionId, and transient with any other code.
C34_PermanentIffCodeDenylisted ==
    Classified => (hist.finished.res.fault = "permanent" <=> Denylisted(hist.cause.ans))

\* The runs of the process before this one, and the last of them.
Earlier == hist.earlier

LastRun == Earlier[Len(Earlier)]

Redeploy ==
    /\ cfg # NoCfg
    /\ event.action \in DeployActions
    /\ Earlier # <<>>
    /\ LastRun.ok /\ LastRun.action \in DeployActions /\ LastRun.id = event.id
    /\ LastRun.groups[cfg.resourceGroup].state = "present"
    /\ LastRun.groups[cfg.resourceGroup].app # <<>>

\* C37, as claimed: when a redeploy fails in any step of Deploy, the resource
\* group with the earlier preview is gone when the run is over.
C37_FailedRedeployRemovesPreview ==
    (Redeploy /\ Done /\ hist.failedStep # 0) => Group = Absent

\* C37, amended: when a redeploy fails in any step of Deploy, the rollback
\* delete has been called on the resource group that held the earlier
\* preview, and unless that delete failed the group is gone.
C37_FailedRedeployRollsBackPreview ==
    (Redeploy /\ Done /\ hist.failedStep # 0) =>
        /\ RollbackIssued
        /\ hist.deleteCalls = 1
        /\ cleanupErr = Nil => Group = Absent

\* C37: a redeploy failed in its first step, before it changed anything, and
\* the rollback has removed the group of the earlier preview.
C37_Witness ==
    /\ Redeploy /\ Done /\ hist.failedStep = 1
    /\ RollbackIssued /\ cleanupErr = Nil /\ Group = Absent

\* The positions of a run in which backoff.Retry is running.
RetrySteps ==
    {"ensureResourceGroup", "ensureEnvironment", "createContainerApp", "rollback",
     "teardownDelete"}

\* A retry that goes round again has used up time of its context and has
\* time left.
RetryTakesTime == (pc' = pc /\ pc \in RetrySteps) => (left' < left /\ left' > 0)

\* C38: every run comes to its end, whatever the provider answers and however
\* long it takes: a retry goes round again only while time is left of the
\* context it runs under, each round using some of it up, and the run
\* eventually returns from run with nil or an error.
C38_EveryRunTerminates == [][RetryTakesTime]_vars /\ <>Done

\* C38: a teardown whose delete was retried and then ran into the deadline of
\* the run has returned the error.
C38_Witness ==
    /\ Done /\ event.action = "closed"
    /\ TimedOut(runErr)
    /\ hist.finished.op = "delete" /\ hist.finished.invoked > 1

\* The delete of this teardown run has been called and its retry has returned
\* an error.
TeardownDeleteFailed ==
    /\ event.action = "closed"
    /\ Done
    /\ Called("delete")
    /\ "delete" \notin hist.succeeded

\* C39: in a teardown run the Status Reporter is called, and the pull request
\* gets a comment, only after the delete of the resource group has returned
\* nil, the group gone; and when the delete has failed the run returns its
\* error, wrapped (the deadline's when the deadline ended it, the provider's
\* permanent error when that ended it), and has neither called the Status
\* Reporter nor left a comment.
C39_CommentOnlyAfterDelete ==
    event.action = "closed" =>
        /\ Called("post") => ("delete" \in hist.succeeded /\ Group = Absent)
        /\ thread # <<>> => Called("post")
        /\ TeardownDeleteFailed =>
               /\ runErr # Nil
               /\ Head(runErr) = "failed to delete resource group:"
               /\ hist.finished.returned = "ctx" => TimedOut(runErr)
               /\ hist.finished.res.fault = "permanent" => isPermanentError(runErr)
               /\ ~Called("post")
               /\ thread = <<>>
               /\ postErr = Nil

\* C39: a teardown with the token set whose delete the provider refused for
\* good has returned the error and posted nothing.
C39_Witness ==
    /\ TeardownDeleteFailed
    /\ cfg.githubToken # ""
    /\ hist.finished.res.fault = "permanent"
    /\ isPermanentError(runErr)
    /\ ~Called("post")

\* The rows of the history table of a status comment: its lines that begin
\* as a row with a commit does.
IsHistoryRow(line) == HasPrefix(line, "| '")

TableRows(body) == SelectSeq(body, IsHistoryRow)

\* The row that reports the deployment info.
RowOf(info) ==
    <<"| '">> \o (IF Len(info.CommitSHA) > 7 THEN SubSeq(info.CommitSHA, 1, 7)
                  ELSE info.CommitSHA)
    \o <<"' | ", "Ready", " | ">> \o Itoa(info.DeployTime) \o <<"s |">>

\* The body of the status comment of thread t, the empty text when none.
StatusBody(t) == findExistingComment(t).body

\* A deployment has just been posted: the Status Reporter returned nil and
\* the status comment shows the preview ready.
DeploymentPosted ==
    /\ hist'.posts = hist.posts + 1
    /\ postErr' = Nil
    /\ \E i \in 1..Len(StatusBody(thread')) :
           Contains(StatusBody(thread')[i], "Preview Ready")

\* The first n elements of s, all of s when it has fewer.
FirstOf(s, n) == SubSeq(s, 1, IF Len(s) < n THEN Len(s) ELSE n)

\* C40: whenever a deployment is posted to the status comment, its history
\* table then has at most 10 rows: first the row of the deployment just
\* posted, then the first 9 rows of the table the comment had before, in the
\* order they had; the rows after those are gone.
C40_HistoryNewestFirstCapped ==
    [][DeploymentPosted =>
          LET old == TableRows(StatusBody(thread))
              new == TableRows(StatusBody(thread'))
          IN  /\ Len(new) >= 1
              /\ Len(new) <= 10
              /\ \E info \in ReportedInfos : Head(new) = RowOf(info)
              /\ Tail(new) = FirstOf(old, 9)]_vars

\* C40: a deployment was posted to a comment that had 10 rows: the table has
\* 10 rows again, the new one first, the row of the second deployment last
\* and that of the first gone.
C40_Witness ==
    LET rows == TableRows(StatusBody(thread))
    IN  /\ hist.posts = 1
        /\ postErr = Nil
        /\ Len(rows) = 10
        /\ \E info \in ReportedInfos : rows[1] = RowOf(info)
        /\ rows[2] = RowOf(EarlierInfo(10))
        /\ rows[10] = RowOf(EarlierInfo(2))
        /\ \A i \in 1..10 : rows[i] # RowOf(EarlierInfo(1))

====
